---- MODULE Spec2Model ----
(***************************************************************************)
(* OSMStudio: the frame export pipelines.                                  *)
(*                                                                         *)
(*  - the parallel export of server/server.js (POST                        *)
(*    /export/server/hybrid-start, the puppeteer-cluster tasks, the        *)
(*    monitoring/encoding block, the sessions.json store, the status and   *)
(*    download endpoints) together with the client that polls it           *)
(*    (VideoExporter.startHybridParallelExport);                           *)
(*  - the sequential exports of the two VideoExporter variants (batched    *)
(*    upload to /export/frame-batch + /export/finish, and the WebCodecs    *)
(*    worker of js/video-encoder-worker.js);                               *)
(*  - the keyframe store and its interpolation (KeyframeManager,           *)
(*    Interpolation);                                                      *)
(*  - the playhead of AnimationController and TimelineEditor.              *)
(***************************************************************************)
EXTENDS Integers, Sequences, FiniteSets, TLC

\* ------------------------------------------------------------------ bounds
\* hybrid-start requests the server handles in one run
MaxSessions == 2
\* frames queued over all the sessions of one run
MaxFrames == 3
\* distinct values Date.now() can return during one run
MaxClock == 2
\* frames per second offered to a run
MaxFps == 2
\* workers of one cluster (maxConcurrency)
MaxWorkers == 2

\* frames of one sequential export
MaxSeqFrames == 6

\* playback: durations, seek times and clock readings are multiples of
\* TimeStep seconds
TimeStep == 5

\* the longest duration the duration input is given, in steps
MaxDurationSteps == 3

\* the last reading of Date.now() during playback, in steps
MaxPlayClockSteps == 3

\* keyframes the store holds at most
MaxKeyframes == 2

\* callbacks subscribed to 'keyframesChanged' at most
MaxListeners == 2

\* messages posted to an encoder worker driven alone, at most
MaxWorkerMessages == 4

\* the latest keyframe time and query time, in seconds
MaxTime == 3

\* bits of the significand the numbers of the model keep (a JavaScript
\* number keeps 53); every arithmetic operation rounds to nearest, ties to even
Precision == 4

\* ------------------------------------------------------- program constants
\* const BATCH_SIZE = 5
BATCH_SIZE == 5
\* if (uploadPromises.length > 50)
MaxPendingUploads == 50
\* String(frameIndex).padStart(6, '0') and the pattern frame_%06d.png
PadWidth == 6
\* this.duration = 10 (AnimationController), duration = 10 (TimelineEditor)
DefaultDuration == 10

Requests == 1 .. MaxSessions
SessionIds == 1 .. MaxClock
\* the request sent by the VideoExporter the model follows; the other
\* requests come from other browsers
ClientReq == CHOOSE r \in Requests : \A q \in Requests : r <= q

\* sessions.json holds no record under a key
NoRecord == [ status |-> "absent" ]
\* a frame directory that does not exist, and an empty one
NoDir == [ exists |-> FALSE, files |-> {} ]
EmptyDir == [ exists |-> TRUE, files |-> {} ]
\* an output file that does not exist; one ffmpeg has opened and not finished
NoFile == [ state |-> "none", frames |-> << >> ]
Partial == [ state |-> "partial", frames |-> << >> ]

VARIABLES
    now,            \* the last value Date.now() returned (0: never read)
    reqPc,          \* per request: position of the hybrid-start handler
    sid,            \* per request: its sessionId (0: none yet)
    totalFrames,    \* per request: Math.ceil(duration * fps)
    status,         \* per request: the in-memory status object
    task,           \* per request: frameIndex -> state of its cluster job
    mon,            \* per request: position of the monitoring block
    sessionsFile,   \* sessions.json: sessionId -> record
    frameDirs,      \* TEMP_DIR/<sessionId>: set of frame files, or NoDir
    outputs,        \* TEMP_DIR/<sessionId>_output.mp4
    isExporting,    \* VideoExporter.isExporting of the polling client
    clientPc,       \* position of startHybridParallelExport
    cancelledIn,    \* status of the client's session when cancel was clicked
    lastDownload,   \* the last answer of GET /export/server/download/:id
    variant,        \* the export a run exercises: "parallel", "batch", "worker"
    seqPc,          \* position of the sequential startExport
    seqFrame,       \* its loop variable frame
    seqTotal,       \* its totalFrames
    seqSid,         \* the sessionId /export/start returned (0: none yet)
    finalizeSent,   \* finalize / finish has been sent to the encoder
    downloaded,     \* the video the browser was given to download
    errorShown,     \* what the catch block reported to the user
    frameBuffer,    \* batch variant: frames captured and not yet uploaded
    uploads,        \* batch variant: uploadPromises, with each batch's fate
    finishRes,      \* batch variant: the answer of POST /export/finish
    wInbox,         \* worker variant: messages posted to the worker
    wOutbox,        \* worker variant: messages the worker posted back
    encState,       \* worker variant: state of the worker's VideoEncoder
    muxed,          \* worker variant: frames the muxer holds, in order
    ui,             \* worker variant: the start button, the Worker object, the
                    \* map container's style, and the fps read from the dialog
    encFailed,      \* worker variant: an encode ended in an 'error' message
                    \* before 'finalize' was posted
    lastStatus,     \* the last answer of GET /export/server/status/:id
    cameraSamples,  \* the interpolateAt calls of the capture steps: the step's
                    \* frame index and its query time, in units of 1/fps
    keyframes,      \* KeyframeManager.keyframes
    sampled,        \* the last query put to the keyframe store, and its answer
    selectedKeyframe, \* KeyframeManager.selectedKeyframe, as the position of
                    \* the keyframe in the array (0: null)
    listeners,      \* KeyframeManager.listeners['keyframesChanged']
    emitted,        \* the last operation of the store, the calls it made to
                    \* the 'keyframesChanged' callbacks, and what it emitted as
                    \* 'keyframeSelected'
    currentTime,    \* AnimationController.currentTime
    duration,       \* AnimationController.duration
    isPlaying,      \* AnimationController.isPlaying
    playStartTime,  \* AnimationController.playStartTime
    loop,           \* AnimationController.loop
    tlCurrentTime,  \* TimelineEditor.currentTime
    tlDuration,     \* TimelineEditor.duration
    playTimers      \* the intervals set and not cleared, the handle kept in
                    \* playInterval, and whether the interval callback ran last

parVars == << now, reqPc, sid, totalFrames, status, task, mon,
              sessionsFile, frameDirs, outputs,
              isExporting, clientPc, cancelledIn, lastDownload >>

\* what only the sequential exports touch
seqAll == << seqPc, seqFrame, seqTotal, seqSid, finalizeSent, downloaded,
             errorShown, frameBuffer, uploads, finishRes,
             wInbox, wOutbox, encState, muxed, encFailed, ui >>

\* what only the parallel export touches
parOnly == << reqPc, sid, totalFrames, status, task, mon, sessionsFile,
              clientPc, lastDownload >>

\* the keyframe store
kfVars == << keyframes, selectedKeyframe, sampled, listeners, emitted >>

\* the playhead
playVars == << currentTime, duration, isPlaying, playStartTime, loop,
              tlCurrentTime, tlDuration, playTimers >>

\* what the exports of the first three parts leave alone
editorVars == << lastStatus, cameraSamples, kfVars, playVars >>

vars == << parVars, seqAll, variant, editorVars >>

\* ------------------------------------------------------------ pure helpers
Min(S) == CHOOSE x \in S : \A y \in S : x <= y

RECURSIVE Digits(_)
\* String(n) for n >= 0, as its decimal digits
Digits(n) == IF n < 10 THEN << n >> ELSE Append(Digits(n \div 10), n % 10)

RECURSIVE PadStart(_, _, _)
\* s.padStart(width, c)
PadStart(s, width, c) ==
    IF Len(s) >= width THEN s ELSE PadStart(<< c >> \o s, width, c)

\* a frame file named by the parity of its index only
FrameFileNameParity(frameIndex) == PadStart(Digits(frameIndex % 2), PadWidth, 0)

\* `frame_${String(frameIndex).padStart(6, '0')}.png`
FrameFileName(frameIndex) == PadStart(Digits(frameIndex), PadWidth, 0)

\* Math.ceil(duration * fps), the duration given in half seconds
TotalFramesOf(durationHalves, fps) == (durationHalves * fps + 1) \div 2

\* the file of a directory with the given name
FileNamed(dir, name) == CHOOSE f \in dir.files : f.name = name
HasFile(dir, name) == \E f \in dir.files : f.name = name

\* writeFile / screenshot({path}): replaces a file of the same name
WriteFile(dir, name, img) ==
    [ dir EXCEPT !.files =
        { f \in @ : f.name # name } \cup { [ name |-> name, img |-> img ] } ]

RECURSIVE ReadSequence(_, _)
\* the image2 demuxer: frame n, n+1, ... until a file is missing
ReadSequence(dir, n) ==
    IF HasFile(dir, FrameFileName(n))
    THEN << FileNamed(dir, FrameFileName(n)).img >> \o ReadSequence(dir, n + 1)
    ELSE << >>

RECURSIVE Reverse(_)
Reverse(q) == IF q = << >> THEN << >> ELSE Append(Reverse(Tail(q)), Head(q))

\* mutant of EncodeInput: the frames are read newest name first
EncodeInputNewestFirst(dir) ==
    LET starts == { n \in 0 .. 4 : HasFile(dir, FrameFileName(n)) }
    IN  IF starts = {} THEN << >> ELSE Reverse(ReadSequence(dir, Min(starts)))

\* encodeVideo's input 'frame_%06d.png': the frames ffmpeg reads, in order
\* (the image2 demuxer looks for the first frame among the indices 0 .. 4)
EncodeInput(dir) ==
    LET starts == { n \in 0 .. 4 : HasFile(dir, FrameFileName(n)) }
    IN  IF starts = {} THEN << >> ELSE ReadSequence(dir, Min(starts))

\* saveSession(sessionId, data): read sessions.json, set one key, write back
SaveSession(file, sessionId, data) == [file EXCEPT ![sessionId] = data]

\* getSession(sessionId)
GetSession(file, sessionId) == file[sessionId]

\* the status object of lines 264-270
InitialStatus(total) ==
    [ status |-> "processing", progress |-> << 0, 1 >>, frames |-> << >>,
      totalFrames |-> total, filePath |-> FALSE, message |-> "starting" ]

NoStatus == [ status |-> "none", progress |-> << 0, 1 >>, frames |-> << >>,
              totalFrames |-> 0, filePath |-> FALSE, message |-> "none" ]

NoDownload == [ code |-> 0, recStatus |-> "none", body |-> "none", id |-> 0 ]

\* no status request answered yet
NoPoll == [ code |-> 0, recStatus |-> "none", id |-> 0 ]

\* before an export: the button enabled, no worker, the container's own
\* style, no rate read from the dialog
NoUi == [ startDisabled |-> FALSE, worker |-> "none", style |-> "own",
          fps |-> 0 ]

\* no interval set yet
NoTimers == [ handle |-> 0, active |-> {}, tick |-> FALSE ]

\* no query put to the keyframe store yet
NoSample == [ asked |-> FALSE ]
NoEmit == [ op |-> "none", calls |-> << >>, selected |-> << >> ]

\* the jobs queued for a request (lines 339-342), once they are queued
TaskIndices(r) == DOMAIN task[r]
Queued(r) == { i \in TaskIndices(r) : task[r][i] = "queued" }
InFlight(r) == { i \in TaskIndices(r) : task[r][i] \in { "running", "shot" } }
FramesQueuedSoFar ==
    LET RECURSIVE Sum(_)
        Sum(S) == IF S = {} THEN 0
                  ELSE LET r == CHOOSE x \in S : TRUE
                       IN  totalFrames[r] + Sum(S \ { r })
    IN  Sum(Requests)

\* ------------------------------------------------------------------- Init
InitCommon ==
    /\ now = 0
    /\ reqPc = [ r \in Requests |-> "none" ]
    /\ sid = [ r \in Requests |-> 0 ]
    /\ totalFrames = [ r \in Requests |-> 0 ]
    /\ status = [ r \in Requests |-> NoStatus ]
    /\ task = [ r \in Requests |-> << >> ]
    /\ mon = [ r \in Requests |-> "none" ]
    /\ sessionsFile = [ s \in SessionIds |-> NoRecord ]
    /\ frameDirs = [ s \in SessionIds |-> NoDir ]
    /\ outputs = [ s \in SessionIds |-> NoFile ]
    /\ isExporting = FALSE
    /\ clientPc = "idle"
    /\ cancelledIn = "never"
    /\ lastDownload = NoDownload
    /\ seqPc = "idle"
    /\ seqFrame = 0
    /\ seqTotal = 0
    /\ seqSid = 0
    /\ finalizeSent = FALSE
    /\ downloaded = NoFile
    /\ errorShown = "none"
    /\ frameBuffer = << >>
    /\ uploads = << >>
    /\ finishRes = [ state |-> "none", body |-> NoFile ]
    /\ wInbox = << >>
    /\ wOutbox = << >>
    /\ encState = "none"
    /\ muxed = << >>
    /\ encFailed = FALSE
    /\ ui = NoUi
    /\ lastStatus = NoPoll
    /\ cameraSamples = {}
    /\ keyframes = << >>
    /\ sampled = NoSample
    /\ listeners = << >>
    /\ selectedKeyframe = 0
    /\ emitted = NoEmit
    /\ currentTime = 0
    /\ duration = DefaultDuration
    /\ isPlaying = FALSE
    /\ playStartTime = 0
    /\ loop = FALSE
    /\ tlCurrentTime = 0
    /\ tlDuration = DefaultDuration
    /\ playTimers = NoTimers

InitParallel == InitCommon /\ variant = "parallel"
InitSequential == InitCommon /\ variant \in { "batch", "worker" }
Init == InitCommon /\ variant \in { "parallel", "batch", "worker" }


\* --------------------------------------------- POST /export/server/hybrid-start
\* Date.now(): the millisecond of the last reading, or the next one
ClockReadings == { t \in SessionIds : now <= t /\ t <= now + 1 }

\* lines 241-249: the session id is the clock reading, the frame directory is
\* created, totalFrames = Math.ceil(duration * fps)
HybridStart(r) ==
    /\ reqPc[r] = "none"
    /\ \A q \in Requests : q < r => reqPc[q] # "none"
    /\ \E t \in ClockReadings, durationHalves \in 1 .. 2 * MaxFrames, fps \in 1 .. MaxFps :
         LET total == TotalFramesOf(durationHalves, fps) IN
         /\ FramesQueuedSoFar + total <= MaxFrames
         /\ now' = t
         /\ sid' = [ sid EXCEPT ![r] = t ]
         /\ totalFrames' = [ totalFrames EXCEPT ![r] = total ]
         /\ frameDirs' = [ frameDirs EXCEPT ![t] = [ @ EXCEPT !.exists = TRUE ] ]
    /\ reqPc' = [ reqPc EXCEPT ![r] = "launching" ]
    /\ UNCHANGED << variant, editorVars, seqAll >>
    /\ UNCHANGED << status, task, mon, sessionsFile, outputs,
                    isExporting, clientPc, cancelledIn, lastDownload >>

\* lines 255-389: the cluster is up; the status object is created and saved,
\* every frame is queued, the monitoring block starts, the id is returned
HybridLaunch(r) ==
    /\ reqPc[r] = "launching"
    /\ status' = [ status EXCEPT ![r] = InitialStatus(totalFrames[r]) ]
    /\ sessionsFile' = SaveSession(sessionsFile, sid[r], InitialStatus(totalFrames[r]))
    /\ task' = [ task EXCEPT ![r] = [ i \in 0 .. totalFrames[r] - 1 |-> "queued" ] ]
    /\ mon' = [ mon EXCEPT ![r] = "waitIdle" ]
    /\ reqPc' = [ reqPc EXCEPT ![r] = "responded" ]
    /\ UNCHANGED << variant, editorVars, seqAll >>
    /\ UNCHANGED << now, sid, totalFrames, frameDirs, outputs,
                    isExporting, clientPc, cancelledIn, lastDownload >>

\* lines 391-394: Cluster.launch throws, the request is answered with a 500
HybridLaunchFail(r) ==
    /\ reqPc[r] = "launching"
    /\ reqPc' = [ reqPc EXCEPT ![r] = "failed" ]
    /\ UNCHANGED << variant, editorVars, seqAll >>
    /\ UNCHANGED << now, sid, totalFrames, status, task, mon, sessionsFile,
                    frameDirs, outputs, isExporting, clientPc, cancelledIn,
                    lastDownload >>

\* ------------------------------------------------------------ cluster tasks
\* the cluster hands its oldest queued job to a free worker (maxConcurrency)
TaskStart(r, i) ==
    /\ mon[r] = "waitIdle"
    /\ Queued(r) # {}
    /\ i = Min(Queued(r))
    /\ Cardinality(InFlight(r)) < MaxWorkers
    /\ task' = [ task EXCEPT ![r][i] = "running" ]
    /\ UNCHANGED << variant, editorVars, seqAll >>
    /\ UNCHANGED << now, reqPc, sid, totalFrames, status, mon, sessionsFile,
                    frameDirs, outputs, isExporting, clientPc, cancelledIn,
                    lastDownload >>

\* lines 284-320: the page is set up and the screenshot is written to
\* frameDir/frame_<index>.png. The screenshot is reached only when the page
\* has no window.app, and then lines 307-310 are skipped (line 291): with the
\* app loaded line 307 calls keyframeManager.setKeyframes, which KeyframeManager
\* (part_001 lines 41-206) does not have, and the task ends in TaskThrow. In
\* neither case does the step reach interpolateAt(t) of line 309.
TaskScreenshot(r, i) ==
    /\ i \in TaskIndices(r)
    /\ task[r][i] = "running"
    /\ frameDirs[sid[r]].exists
    /\ frameDirs' = [ frameDirs EXCEPT ![sid[r]] =
                        WriteFile(@, FrameFileName(i), [ req |-> r, frameIndex |-> i ]) ]
    /\ task' = [ task EXCEPT ![r][i] = "shot" ]
    /\ UNCHANGED << variant, editorVars, seqAll >>
    /\ UNCHANGED << now, reqPc, sid, totalFrames, status, mon, sessionsFile,
                    outputs, isExporting, clientPc, cancelledIn, lastDownload >>

\* lines 324-330: the descriptor is appended and the session saved
StatusAfterFrame(st, i) ==
    [ st EXCEPT !.frames = Append(@, i),
                !.progress = << (Len(st.frames) + 1) * 100, st.totalFrames >>,
                !.message = "captured" ]

TaskComplete(r, i) ==
    /\ i \in TaskIndices(r)
    /\ task[r][i] = "shot"
    /\ status' = [ status EXCEPT ![r] = StatusAfterFrame(@, i) ]
    /\ sessionsFile' = SaveSession(sessionsFile, sid[r], StatusAfterFrame(status[r], i))
    /\ task' = [ task EXCEPT ![r][i] = "done" ]
    /\ UNCHANGED << variant, editorVars, seqAll >>
    /\ UNCHANGED << now, reqPc, sid, totalFrames, mon, frameDirs, outputs,
                    isExporting, clientPc, cancelledIn, lastDownload >>

\* lines 332-335: a step of the task throws; the error is re-thrown to the
\* cluster, which reports it as a 'taskerror' event and goes on with its queue
TaskThrow(r, i) ==
    /\ i \in TaskIndices(r)
    /\ task[r][i] = "running"
    /\ task' = [ task EXCEPT ![r][i] = "failed" ]
    /\ UNCHANGED << variant, editorVars, seqAll >>
    /\ UNCHANGED << now, reqPc, sid, totalFrames, status, mon, sessionsFile,
                    frameDirs, outputs, isExporting, clientPc, cancelledIn,
                    lastDownload >>

\* line 287: the page never becomes network-idle, page.goto gives up with a
\* TimeoutError; lines 332-335 re-throw it to the cluster like any other error
TaskLoadTimeout(r, i) ==
    /\ i \in TaskIndices(r)
    /\ task[r][i] = "running"
    /\ task' = [ task EXCEPT ![r][i] = "timedOut" ]
    /\ UNCHANGED << variant, editorVars, seqAll >>
    /\ UNCHANGED << now, reqPc, sid, totalFrames, status, mon, sessionsFile,
                    frameDirs, outputs, isExporting, clientPc, cancelledIn,
                    lastDownload >>

\* ------------------------------------------------- monitoring and encoding
\* cluster.idle(): no job is queued and none is running
ClusterIdle(r) == Queued(r) = {} /\ InFlight(r) = {}

\* mutant of StatusEncoding: the session is declared completed before encoding
StatusEncodingSkipped(st) ==
    [ st EXCEPT !.status = "completed", !.progress = << 90, 1 >>,
                !.message = "encoding" ]

StatusEncoding(st) ==
    [ st EXCEPT !.status = "encoding", !.progress = << 90, 1 >>,
                !.message = "encoding" ]
StatusCompleted(st) ==
    [ st EXCEPT !.status = "completed", !.progress = << 100, 1 >>,
                !.filePath = TRUE, !.message = "complete" ]

\* mutant of StatusError: the catch branch keeps the status it found
StatusErrorUnset(st) == [ st EXCEPT !.message = "encodingFailed" ]

\* lines 383-384: status 'error', message 'Encoding failed: ...'
StatusError(st) == [ st EXCEPT !.status = "error", !.message = "encodingFailed" ]

\* lines 347-359: idle and closed; status 'encoding' is saved and ffmpeg starts
MonitorEncode(r) ==
    /\ mon[r] = "waitIdle"
    /\ ClusterIdle(r)
    /\ status' = [ status EXCEPT ![r] = StatusEncoding(@) ]
    /\ sessionsFile' = SaveSession(sessionsFile, sid[r], StatusEncoding(status[r]))
    /\ outputs' = [ outputs EXCEPT ![sid[r]] = Partial ]
    /\ mon' = [ mon EXCEPT ![r] = "encoding" ]
    /\ UNCHANGED << variant, editorVars, seqAll >>
    /\ UNCHANGED << now, reqPc, sid, totalFrames, task, frameDirs,
                    isExporting, clientPc, cancelledIn, lastDownload >>

\* lines 347-348, 381-386: cluster.close() throws
MonitorCloseFail(r) ==
    /\ mon[r] = "waitIdle"
    /\ ClusterIdle(r)
    /\ status' = [ status EXCEPT ![r] = StatusError(@) ]
    /\ sessionsFile' = SaveSession(sessionsFile, sid[r], StatusError(status[r]))
    /\ mon' = [ mon EXCEPT ![r] = "finished" ]
    /\ UNCHANGED << variant, editorVars, seqAll >>
    /\ UNCHANGED << now, reqPc, sid, totalFrames, task, frameDirs, outputs,
                    isExporting, clientPc, cancelledIn, lastDownload >>

\* another encoder is writing the same output path
OtherEncoder(r) ==
    \E q \in Requests \ { r } : sid[q] = sid[r] /\ mon[q] = "encoding"

\* lines 359-368: ffmpeg ends; status 'completed' with filePath is saved
EncodeDone(r) ==
    /\ mon[r] = "encoding"
    /\ EncodeInput(frameDirs[sid[r]]) # << >>
    /\ outputs' = [ outputs EXCEPT ![sid[r]] =
                      IF OtherEncoder(r) THEN Partial
                      ELSE [ state |-> "complete",
                             frames |-> EncodeInput(frameDirs[sid[r]]) ] ]
    /\ status' = [ status EXCEPT ![r] = StatusCompleted(@) ]
    /\ sessionsFile' = SaveSession(sessionsFile, sid[r], StatusCompleted(status[r]))
    /\ mon' = [ mon EXCEPT ![r] = "retained" ]
    /\ UNCHANGED << variant, editorVars, seqAll >>
    /\ UNCHANGED << now, reqPc, sid, totalFrames, task, frameDirs,
                    isExporting, clientPc, cancelledIn, lastDownload >>

\* lines 359, 381-386: ffmpeg reports an error
EncodeFail(r) ==
    /\ mon[r] = "encoding"
    /\ status' = [ status EXCEPT ![r] = StatusError(@) ]
    /\ sessionsFile' = SaveSession(sessionsFile, sid[r], StatusError(status[r]))
    /\ mon' = [ mon EXCEPT ![r] = "encodeFailed" ]
    /\ UNCHANGED << variant, editorVars, seqAll >>
    /\ UNCHANGED << now, reqPc, sid, totalFrames, task, frameDirs, outputs,
                    isExporting, clientPc, cancelledIn, lastDownload >>

\* lines 371-379: ten minutes later the output is unlinked and, when that
\* worked, the frame directory removed
Cleanup(r) ==
    /\ mon[r] = "retained"
    /\ IF outputs[sid[r]] = NoFile
       THEN UNCHANGED << outputs, frameDirs >>
       ELSE /\ outputs' = [ outputs EXCEPT ![sid[r]] = NoFile ]
            /\ frameDirs' = [ frameDirs EXCEPT ![sid[r]] = NoDir ]
    /\ mon' = [ mon EXCEPT ![r] = "cleaned" ]
    /\ UNCHANGED << variant, editorVars, seqAll >>
    /\ UNCHANGED << now, reqPc, sid, totalFrames, status, task, sessionsFile,
                    isExporting, clientPc, cancelledIn, lastDownload >>

\* -------------------------------------- GET /export/server/download/:sessionId
\* lines 423-434: 404 unless the record is completed with a filePath;
\* res.download of a file that is gone ends as an error
\* mutant of DownloadResponse: any known session is served its output file
DownloadResponseAnyStatus(rec, file) ==
    IF rec = NoRecord THEN [ code |-> 404, body |-> "none" ]
    ELSE IF file = NoFile THEN [ code |-> 500, body |-> "none" ]
         ELSE [ code |-> 200, body |-> file.state ]

DownloadResponse(rec, file) ==
    IF rec = NoRecord \/ rec.status # "completed" \/ ~rec.filePath
    THEN [ code |-> 404, body |-> "none" ]
    ELSE IF file = NoFile THEN [ code |-> 500, body |-> "none" ]
         ELSE [ code |-> 200, body |-> file.state ]

Download(id) ==
    /\ LET rec == GetSession(sessionsFile, id)
           res == DownloadResponse(rec, outputs[id])
       IN  lastDownload' = [ code |-> res.code, recStatus |-> rec.status,
                             body |-> res.body, id |-> id ]
    /\ UNCHANGED << variant, editorVars, seqAll >>
    /\ UNCHANGED << now, reqPc, sid, totalFrames, status, task, mon,
                    sessionsFile, frameDirs, outputs, isExporting, clientPc,
                    cancelledIn >>

\* ---------------------------------------- GET /export/server/status/:sessionId
\* lines 401-416: the record as it is, or 404 when getSession finds none
StatusResponse(rec) ==
    IF rec = NoRecord THEN [ code |-> 404, recStatus |-> "absent" ]
    ELSE [ code |-> 200, recStatus |-> rec.status ]

StatusPoll(id) ==
    /\ LET res == StatusResponse(GetSession(sessionsFile, id))
       IN  lastStatus' = [ code |-> res.code, recStatus |-> res.recStatus,
                           id |-> id ]
    /\ UNCHANGED << variant, cameraSamples, kfVars, playVars, seqAll >>
    /\ UNCHANGED << now, reqPc, sid, totalFrames, status, task, mon,
                    sessionsFile, frameDirs, outputs, isExporting, clientPc,
                    cancelledIn, lastDownload >>

\* ------------------------------ VideoExporter.startHybridParallelExport
\* lines 315-365: the export is confirmed and the start request sent
ClientStart ==
    /\ clientPc = "idle"
    /\ ~isExporting
    /\ isExporting' = TRUE
    /\ clientPc' = "starting"
    /\ UNCHANGED << variant, editorVars, seqAll >>
    /\ UNCHANGED << now, reqPc, sid, totalFrames, status, task, mon,
                    sessionsFile, frameDirs, outputs, cancelledIn, lastDownload >>

\* lines 367-373, 432-441: the answer of hybrid-start
ClientStarted ==
    /\ clientPc = "starting"
    /\ reqPc[ClientReq] \in { "responded", "failed" }
    /\ IF reqPc[ClientReq] = "failed"
       THEN clientPc' = "failed" /\ isExporting' = FALSE
       ELSE clientPc' = "pollTop" /\ UNCHANGED isExporting
    /\ UNCHANGED << variant, editorVars, seqAll >>
    /\ UNCHANGED << now, reqPc, sid, totalFrames, status, task, mon,
                    sessionsFile, frameDirs, outputs, cancelledIn, lastDownload >>

\* lines 377-378, 416: the loop condition; a cleared flag ends the run
ClientPollTop ==
    /\ clientPc = "pollTop"
    /\ clientPc' = IF isExporting THEN "pollWait" ELSE "cancelled"
    /\ UNCHANGED << variant, editorVars, seqAll >>
    /\ UNCHANGED << now, reqPc, sid, totalFrames, status, task, mon,
                    sessionsFile, frameDirs, outputs, isExporting, cancelledIn,
                    lastDownload >>

\* the poll that takes 'failed' for the status of a failed session
AfterPollFailed(rec, exporting) ==
    IF rec = NoRecord THEN "failed"
    ELSE IF rec.status = "completed"
         THEN IF exporting THEN "downloaded" ELSE "cancelled"
    ELSE IF rec.status = "failed" THEN "failed"
    ELSE "pollTop"

\* what one poll makes of the record the status endpoint returns
AfterPoll(rec, exporting) ==
    IF rec = NoRecord THEN "failed"
    ELSE IF rec.status = "completed"
         THEN IF exporting THEN "downloaded" ELSE "cancelled"
    ELSE IF rec.status = "error" THEN "failed"
    ELSE "pollTop"

\* lines 380-430: one status poll and what follows from it
ClientPoll ==
    /\ clientPc = "pollWait"
    /\ clientPc' = AfterPoll(GetSession(sessionsFile, sid[ClientReq]), isExporting)
    /\ isExporting' = IF clientPc' = "pollTop" THEN isExporting ELSE FALSE
    /\ UNCHANGED << variant, editorVars, seqAll >>
    /\ UNCHANGED << now, reqPc, sid, totalFrames, status, task, mon,
                    sessionsFile, frameDirs, outputs, cancelledIn, lastDownload >>

\* ------------------------------------ VideoExporter.startServerExport
\* part_002 lines 306-326: the older client posts to /export/server/start
StartServerExport ==
    /\ clientPc = "idle"
    /\ ~isExporting
    /\ isExporting' = TRUE
    /\ clientPc' = "serverStarting"
    /\ UNCHANGED << variant, editorVars, seqAll >>
    /\ UNCHANGED << now, reqPc, sid, totalFrames, status, task, mon,
                    sessionsFile, frameDirs, outputs, cancelledIn, lastDownload >>

\* part_002 lines 328, 376-385: server.js has no route /export/server/start
\* (its routes are at lines 43-453), the response is not ok, and the export
\* ends before the polling of lines 332-375 is set up
ServerStartRefused ==
    /\ clientPc = "serverStarting"
    /\ clientPc' = "failed"
    /\ isExporting' = FALSE
    /\ UNCHANGED << variant, editorVars, seqAll >>
    /\ UNCHANGED << now, reqPc, sid, totalFrames, status, task, mon,
                    sessionsFile, frameDirs, outputs, cancelledIn, lastDownload >>

\* lines 50-69: cancel (or close) clicked and confirmed during an export
ClientCancel ==
    /\ isExporting
    /\ isExporting' = FALSE
    /\ cancelledIn' = status[ClientReq].status
    /\ UNCHANGED << variant, editorVars, seqAll >>
    /\ UNCHANGED << now, reqPc, sid, totalFrames, status, task, mon,
                    sessionsFile, frameDirs, outputs, clientPc, lastDownload >>

\* every step the server takes for a request once it has read its id
ServerStep(r) ==
    \/ HybridLaunch(r)
    \/ HybridLaunchFail(r)
    \/ \E i \in 0 .. MaxFrames - 1 : TaskStart(r, i)
    \/ \E i \in 0 .. MaxFrames - 1 : TaskScreenshot(r, i)
    \/ \E i \in 0 .. MaxFrames - 1 : TaskComplete(r, i)
    \/ \E i \in 0 .. MaxFrames - 1 : TaskThrow(r, i)
    \/ \E i \in 0 .. MaxFrames - 1 : TaskLoadTimeout(r, i)
    \/ MonitorEncode(r)
    \/ MonitorCloseFail(r)
    \/ EncodeDone(r)
    \/ EncodeFail(r)
    \/ Cleanup(r)

\* the server under the start requests of several browsers
NextParallel ==
    \E r \in Requests : HybridStart(r) \/ ServerStep(r)

SpecParallel == InitParallel /\ [][NextParallel]_vars

\* the request of the polling client reaches the server
ClientRequest ==
    /\ clientPc = "starting"
    /\ HybridStart(ClientReq)

\* one VideoExporter, its session on the server, and its polling
NextPoll ==
    \/ ClientStart
    \/ StartServerExport
    \/ ServerStartRefused
    \/ ClientRequest
    \/ ServerStep(ClientReq)
    \/ ClientStarted
    \/ ClientPollTop
    \/ ClientPoll
    \/ ClientCancel

SpecPoll == InitParallel /\ [][NextPoll]_vars

\* the server and a request to its download endpoint, sent at any moment; the
\* run is followed up to the response, so that the response stands next to
\* the server's state at the moment it was sent
NextDownload ==
    \/ /\ lastDownload = NoDownload
       /\ \E r \in Requests : HybridStart(r) \/ ServerStep(r)
    \/ /\ lastDownload = NoDownload
       /\ \E id \in SessionIds : Download(id)

SpecDownload == InitParallel /\ [][NextDownload]_vars

\* the server and one request to its status or its download endpoint, sent
\* at any moment; the run is followed up to the response
NextLookup ==
    \/ /\ lastStatus = NoPoll /\ lastDownload = NoDownload
       /\ \E r \in Requests : HybridStart(r) \/ ServerStep(r)
    \/ /\ lastStatus = NoPoll /\ lastDownload = NoDownload
       /\ \E id \in SessionIds : StatusPoll(id)
    \/ /\ lastStatus = NoPoll /\ lastDownload = NoDownload
       /\ \E id \in SessionIds : Download(id)

SpecLookup == InitParallel /\ [][NextLookup]_vars

\* the server when every timer and every pending promise gets its turn
SpecRetention == InitParallel /\ [][NextParallel]_vars /\ WF_vars(NextParallel)

\* ===================================================== sequential exports
batchOnly == << frameBuffer, uploads, finishRes >>
wrkOnly == << wInbox, wOutbox, encState, muxed, encFailed, ui >>

NoResponse == [ state |-> "none", body |-> NoFile ]

\* the image captured for a frame of the sequential export
Captured(frame) == [ req |-> 0, frameIndex |-> frame ]

\* the loop is running and the last frame has not been submitted
InCaptureLoop ==
    \/ seqPc = "loopTop" /\ seqFrame < seqTotal
    \/ seqPc = "capturing"
    \/ seqPc \in { "gate", "yield" } /\ seqFrame < seqTotal - 1

\* submissions sent to the encoder side and not yet resolved
Outstanding ==
    IF variant = "batch"
    THEN Cardinality({ k \in DOMAIN uploads : uploads[k].state = "pending" })
    ELSE Cardinality({ k \in DOMAIN wInbox : wInbox[k].type = "encode" })

\* lines 50-69 (part_003), 39-52 (part_002): cancel or close clicked, and
\* confirmed, while an export runs
SeqCancel ==
    /\ isExporting
    /\ seqPc \notin { "idle", "error", "closed" }
    /\ isExporting' = FALSE
    /\ cancelledIn' = IF InCaptureLoop THEN "loop" ELSE "other"
    /\ UNCHANGED << variant, editorVars, parOnly, now, frameDirs, outputs, seqAll >>

\* -------------------------------------- batched upload variant (part_002)
\* lines 68-92: settings are read, the flag is set, /export/start is called
BatchStart ==
    /\ variant = "batch"
    /\ seqPc = "idle"
    /\ ~isExporting
    /\ \E durationHalves \in 1 .. 2 * MaxSeqFrames, fps \in 1 .. MaxFps :
         /\ TotalFramesOf(durationHalves, fps) <= MaxSeqFrames
         /\ seqTotal' = TotalFramesOf(durationHalves, fps)
    /\ isExporting' = TRUE
    /\ seqPc' = "starting"
    /\ UNCHANGED << variant, editorVars, parOnly, now, frameDirs, outputs, cancelledIn,
                    seqFrame, seqSid, finalizeSent, downloaded, errorShown,
                    batchOnly, wrkOnly >>

\* server.js lines 43-53: POST /export/start
ExportStart ==
    /\ seqPc = "starting"
    /\ seqSid = 0
    /\ \E t \in ClockReadings :
         /\ now' = t
         /\ seqSid' = t
         /\ frameDirs' = [ frameDirs EXCEPT ![t] = [ @ EXCEPT !.exists = TRUE ] ]
    /\ UNCHANGED << variant, editorVars, parOnly, outputs, isExporting, cancelledIn,
                    seqPc, seqFrame, seqTotal, finalizeSent, downloaded,
                    errorShown, batchOnly, wrkOnly >>

\* lines 93-131: the session id arrives, the viewer is resized, the loop starts
BatchStarted ==
    /\ seqPc = "starting"
    /\ seqSid # 0
    /\ seqPc' = "loopTop"
    /\ UNCHANGED << variant, editorVars, parOnly, now, frameDirs, outputs, isExporting,
                    cancelledIn, seqFrame, seqTotal, seqSid, finalizeSent,
                    downloaded, errorShown, batchOnly, wrkOnly >>

\* const time = frame / fps; interpolateAt(time) (part_002 lines 134-137,
\* part_003 lines 180-183): the query time is kept as the quotient it is of
\* the frame and the rate of the run
SampleStep(req, frame) ==
    [ req |-> req, frameIndex |-> frame, time |-> << frame, "fps" >> ]

\* lines 131-143: the loop condition, then the cancellation check, then the
\* camera is sampled at frame / fps and set, and the settle wait begins
BatchLoopTop ==
    /\ variant = "batch"
    /\ seqPc = "loopTop"
    /\ IF seqFrame >= seqTotal
       THEN seqPc' = "waitAll" /\ UNCHANGED << errorShown, cameraSamples >>
       ELSE IF ~isExporting
            THEN /\ seqPc' = "error" /\ errorShown' = "Export Cancelled"
                 /\ UNCHANGED cameraSamples
            ELSE /\ seqPc' = "capturing" /\ UNCHANGED errorShown
                 /\ cameraSamples' = cameraSamples \cup { SampleStep(0, seqFrame) }
    /\ UNCHANGED << variant, lastStatus, kfVars, playVars, parOnly, now, frameDirs, outputs, isExporting,
                    cancelledIn, seqFrame, seqTotal, seqSid, finalizeSent,
                    downloaded, batchOnly, wrkOnly >>

\* line 176: the buffer is full, or this is the last frame
BatchIsDue(buffer, frame, total) ==
    Len(buffer) >= BATCH_SIZE \/ frame = total - 1

\* line 193: wait for an upload before going on
GateCloses(promises) == Len(promises) > MaxPendingUploads

\* lines 153-199: the frame is captured and buffered; a due batch is sent
BatchCapture ==
    /\ variant = "batch"
    /\ seqPc = "capturing"
    /\ LET buffer == Append(frameBuffer, seqFrame) IN
       IF BatchIsDue(buffer, seqFrame, seqTotal)
       THEN /\ uploads' = Append(uploads, [ frames |-> buffer, state |-> "pending" ])
            /\ frameBuffer' = << >>
            /\ seqPc' = IF GateCloses(uploads') THEN "gate" ELSE "yield"
            /\ UNCHANGED seqFrame
       ELSE /\ frameBuffer' = buffer
            /\ seqFrame' = seqFrame + 1
            /\ seqPc' = "loopTop"
            /\ UNCHANGED uploads
    /\ UNCHANGED << variant, editorVars, parOnly, now, frameDirs, outputs, isExporting,
                    cancelledIn, seqTotal, seqSid, finalizeSent, downloaded,
                    errorShown, finishRes, wrkOnly >>

\* line 194: Promise.race(uploadPromises), over every promise ever pushed,
\* resolves once one of them has settled
RaceResolved(promises) == \E k \in DOMAIN promises : promises[k].state # "pending"

\* lines 193-199 and the loop increment: the gate, when closed, then the yield
BatchYield ==
    /\ seqPc \in { "gate", "yield" }
    /\ seqPc = "gate" => RaceResolved(uploads)
    /\ seqFrame' = seqFrame + 1
    /\ seqPc' = "loopTop"
    /\ UNCHANGED << variant, editorVars, parOnly, now, frameDirs, outputs, isExporting,
                    cancelledIn, seqTotal, seqSid, finalizeSent, downloaded,
                    errorShown, batchOnly, wrkOnly >>

RECURSIVE WriteBatch(_, _)
\* server.js lines 66-73: every frame of the batch is written under its index
WriteBatch(dir, frames) ==
    IF frames = << >> THEN dir
    ELSE WriteBatch(WriteFile(dir, FrameFileName(Head(frames)), Captured(Head(frames))),
                    Tail(frames))

\* server.js lines 56-75: a batch is stored and answered with success
UploadOk(k) ==
    /\ k \in DOMAIN uploads
    /\ uploads[k].state = "pending"
    /\ frameDirs[seqSid].exists
    /\ frameDirs' = [ frameDirs EXCEPT ![seqSid] = WriteBatch(@, uploads[k].frames) ]
    /\ uploads' = [ uploads EXCEPT ![k].state = "ok" ]
    /\ UNCHANGED << variant, editorVars, parOnly, now, outputs, isExporting, cancelledIn,
                    seqPc, seqFrame, seqTotal, seqSid, finalizeSent, downloaded,
                    errorShown, frameBuffer, finishRes, wrkOnly >>

\* server.js lines 59-61, 76-79: the batch is answered with a 400 or 500;
\* fetch resolves and the response is not looked at (lines 181-188)
UploadHttpError(k) ==
    /\ k \in DOMAIN uploads
    /\ uploads[k].state = "pending"
    /\ uploads' = [ uploads EXCEPT ![k].state = "httpError" ]
    /\ UNCHANGED << variant, editorVars, parOnly, now, frameDirs, outputs, isExporting,
                    cancelledIn, seqPc, seqFrame, seqTotal, seqSid, finalizeSent,
                    downloaded, errorShown, frameBuffer, finishRes, wrkOnly >>

\* lines 185-188: fetch rejects; the catch clears the flag
UploadReject(k) ==
    /\ k \in DOMAIN uploads
    /\ uploads[k].state = "pending"
    /\ uploads' = [ uploads EXCEPT ![k].state = "rejected" ]
    /\ isExporting' = FALSE
    /\ UNCHANGED << variant, editorVars, parOnly, now, frameDirs, outputs, cancelledIn,
                    seqPc, seqFrame, seqTotal, seqSid, finalizeSent, downloaded,
                    errorShown, frameBuffer, finishRes, wrkOnly >>

\* lines 203-232: every upload promise has settled; the viewer is restored and
\* /export/finish is called
BatchWaitAll ==
    /\ seqPc = "waitAll"
    /\ \A k \in DOMAIN uploads : uploads[k].state # "pending"
    /\ finalizeSent' = TRUE
    /\ finishRes' = [ state |-> "pending", body |-> NoFile ]
    /\ seqPc' = "finishing"
    /\ UNCHANGED << variant, editorVars, parOnly, now, frameDirs, outputs, isExporting,
                    cancelledIn, seqFrame, seqTotal, seqSid, downloaded,
                    errorShown, frameBuffer, uploads, wrkOnly >>

\* server.js lines 121-152: the frames are encoded and the video is sent
ExportFinishOk ==
    /\ finishRes.state = "pending"
    /\ EncodeInput(frameDirs[seqSid]) # << >>
    /\ LET video == [ state |-> "complete", frames |-> EncodeInput(frameDirs[seqSid]) ]
       IN  /\ outputs' = [ outputs EXCEPT ![seqSid] = video ]
           /\ finishRes' = [ state |-> "ok", body |-> video ]
    /\ UNCHANGED << variant, editorVars, parOnly, now, frameDirs, isExporting, cancelledIn,
                    seqPc, seqFrame, seqTotal, seqSid, finalizeSent, downloaded,
                    errorShown, frameBuffer, uploads, wrkOnly >>

\* server.js lines 154-165: encoding fails; 500, and the frames are removed
ExportFinishFail ==
    /\ finishRes.state = "pending"
    /\ finishRes' = [ state |-> "error", body |-> NoFile ]
    /\ frameDirs' = [ frameDirs EXCEPT ![seqSid] = NoDir ]
    /\ UNCHANGED << variant, editorVars, parOnly, now, outputs, isExporting, cancelledIn,
                    seqPc, seqFrame, seqTotal, seqSid, finalizeSent, downloaded,
                    errorShown, frameBuffer, uploads, wrkOnly >>

\* server.js lines 145-152: five seconds after the video was sent
FinishCleanup ==
    /\ finishRes.state = "ok"
    /\ outputs[seqSid] # NoFile
    /\ outputs' = [ outputs EXCEPT ![seqSid] = NoFile ]
    /\ frameDirs' = [ frameDirs EXCEPT ![seqSid] = NoDir ]
    /\ UNCHANGED << variant, editorVars, parOnly, now, isExporting, cancelledIn, seqAll >>

\* lines 234-248, 259-263: the answer of /export/finish
BatchFinished ==
    /\ seqPc = "finishing"
    /\ finishRes.state \in { "ok", "error" }
    /\ IF finishRes.state = "ok"
       THEN /\ downloaded' = finishRes.body
            /\ seqPc' = "done"
            /\ UNCHANGED << errorShown, isExporting >>
       ELSE /\ errorShown' = "encode error"
            /\ isExporting' = FALSE
            /\ seqPc' = "error"
            /\ UNCHANGED downloaded
    /\ UNCHANGED << variant, editorVars, parOnly, now, frameDirs, outputs, cancelledIn,
                    seqFrame, seqTotal, seqSid, finalizeSent, batchOnly, wrkOnly >>

\* lines 250-257: two seconds after the download
BatchReset ==
    /\ variant = "batch"
    /\ seqPc = "done"
    /\ isExporting' = FALSE
    /\ seqPc' = "closed"
    /\ UNCHANGED << variant, editorVars, parOnly, now, frameDirs, outputs, cancelledIn,
                    seqFrame, seqTotal, seqSid, finalizeSent, downloaded,
                    errorShown, batchOnly, wrkOnly >>

\* ------------------------------------- WebCodecs worker variant (part_003)
Msg(type, frame) == [ type |-> type, frame |-> frame ]

\* a finally block that leaves the worker running
FinallyKeepsWorker(u) ==
    [ u EXCEPT !.startDisabled = FALSE,
               !.style = IF @ = "forced" THEN "restored" ELSE @ ]

\* the finally block, lines 256-283: the worker, if one was created, is
\* terminated; the container's style, if it was saved, is put back; the
\* start button is enabled (isExporting is cleared by the action)
Finally(u) ==
    [ u EXCEPT !.startDisabled = FALSE,
               !.worker = IF @ = "live" THEN "terminated" ELSE @,
               !.style = IF @ = "forced" THEN "restored" ELSE @ ]

\* lines 85-139: the flag is set, the start button disabled, the worker
\* created and 'configure' posted
WorkerStart ==
    /\ variant = "worker"
    /\ seqPc = "idle"
    /\ ~isExporting
    /\ \E durationHalves \in 1 .. 2 * MaxSeqFrames, fps \in 1 .. MaxFps :
         /\ TotalFramesOf(durationHalves, fps) <= MaxSeqFrames
         /\ seqTotal' = TotalFramesOf(durationHalves, fps)
         /\ ui' = [ startDisabled |-> TRUE, worker |-> "live",
                    style |-> "own", fps |-> fps ]
    /\ isExporting' = TRUE
    /\ wInbox' = << Msg("configure", 0) >>
    /\ seqPc' = "configuring"
    /\ UNCHANGED << variant, editorVars, parOnly, now, frameDirs, outputs, cancelledIn,
                    seqFrame, seqSid, finalizeSent, downloaded, errorShown,
                    batchOnly, wOutbox, encState, muxed, encFailed >>

\* the worker runs until worker.terminate() (lines 258-260); a worker driven
\* by its messages alone is never terminated
WorkerAlive == variant = "encoder" \/ seqPc \notin { "idle", "done", "error" }

\* a 'finalize' that answers 'complete' whatever the worker holds
FinalizeRepliesAny(state) == { "complete", "error" }

\* worker lines 58-69, 72-75: the answers 'finalize' can get. Without a muxer
\* the handler throws 'Muxer not initialized'; flush() of an encoder that was
\* never configured, or that fails, rejects; a closed encoder is not flushed
FinalizeReplies(state) ==
    CASE state = "none" -> { "error" }
      [] state = "closed" -> { "complete" }
      [] OTHER -> { "complete", "error" }

\* worker lines 11-46: 'configure'
WorkerConfigure ==
    /\ WorkerAlive
    /\ wInbox # << >> /\ Head(wInbox).type = "configure"
    /\ wInbox' = Tail(wInbox)
    /\ encState' = "configured"
    /\ wOutbox' = Append(wOutbox, Msg("configured", 0))
    /\ UNCHANGED << variant, editorVars, parOnly, now, frameDirs, outputs, isExporting,
                    cancelledIn, seqPc, seqFrame, seqTotal, seqSid, finalizeSent,
                    downloaded, errorShown, batchOnly, ui, muxed, encFailed >>

\* worker lines 11-46, 72-75: 'configure' throws, in new Muxer (line 25) with
\* nothing assigned, or later (lines 36-44) with the muxer assigned and no
\* configured encoder
WorkerConfigureFail ==
    /\ WorkerAlive
    /\ wInbox # << >> /\ Head(wInbox).type = "configure"
    /\ wInbox' = Tail(wInbox)
    /\ encState' \in { encState, "muxerOnly" }
    /\ wOutbox' = Append(wOutbox, Msg("error", 0))
    /\ UNCHANGED << variant, editorVars, parOnly, now, frameDirs, outputs, isExporting,
                    cancelledIn, seqPc, seqFrame, seqTotal, seqSid, finalizeSent,
                    downloaded, errorShown, batchOnly, ui, muxed, encFailed >>

\* worker lines 36-37, 48-56: 'encode'; the chunk reaches the muxer
WorkerEncode ==
    /\ WorkerAlive
    /\ wInbox # << >> /\ Head(wInbox).type = "encode"
    /\ encState = "configured"
    /\ wInbox' = Tail(wInbox)
    /\ muxed' = Append(muxed, Captured(Head(wInbox).frame))
    /\ UNCHANGED << variant, editorVars, parOnly, now, frameDirs, outputs, isExporting,
                    cancelledIn, seqPc, seqFrame, seqTotal, seqSid, finalizeSent,
                    downloaded, errorShown, batchOnly, ui, wOutbox, encState, encFailed >>

\* worker lines 38-41, 48-56, 72-75: the encoder reports an error and closes,
\* or encode() is called on the closed encoder and throws, or there is no
\* configured encoder and line 52 throws with nothing changed
WorkerEncodeError ==
    /\ WorkerAlive
    /\ wInbox # << >> /\ Head(wInbox).type = "encode"
    /\ wInbox' = Tail(wInbox)
    /\ encState' = IF encState \in { "configured", "closed" } THEN "closed"
                   ELSE encState
    /\ encFailed' = (encFailed \/ ~finalizeSent)
    /\ wOutbox' = Append(wOutbox, Msg("error", Head(wInbox).frame))
    /\ UNCHANGED << variant, editorVars, parOnly, now, frameDirs, outputs, isExporting,
                    cancelledIn, seqPc, seqFrame, seqTotal, seqSid, finalizeSent,
                    downloaded, errorShown, batchOnly, ui, muxed >>

\* worker lines 58-66: 'finalize'; flush unless the encoder is closed, then
\* the muxer's buffer is posted as 'complete'
WorkerFinalize ==
    /\ WorkerAlive
    /\ wInbox # << >> /\ Head(wInbox).type = "finalize"
    /\ "complete" \in FinalizeReplies(encState)
    /\ wInbox' = Tail(wInbox)
    /\ wOutbox' = Append(wOutbox, Msg("complete", 0))
    /\ UNCHANGED << variant, editorVars, parOnly, now, frameDirs, outputs, isExporting,
                    cancelledIn, seqPc, seqFrame, seqTotal, seqSid, finalizeSent,
                    downloaded, errorShown, batchOnly, ui, encState, muxed, encFailed >>

\* worker lines 59-61, 67-69, 72-75: flush() rejects, or there is no muxer
WorkerFinalizeFail ==
    /\ WorkerAlive
    /\ wInbox # << >> /\ Head(wInbox).type = "finalize"
    /\ "error" \in FinalizeReplies(encState)
    /\ wInbox' = Tail(wInbox)
    /\ wOutbox' = Append(wOutbox, Msg("error", 0))
    /\ UNCHANGED << variant, editorVars, parOnly, now, frameDirs, outputs, isExporting,
                    cancelledIn, seqPc, seqFrame, seqTotal, seqSid, finalizeSent,
                    downloaded, errorShown, batchOnly, ui, encState, muxed, encFailed >>

\* lines 141-177, 253-283: the first message of the worker settles the
\* configuration; on 'configured' the container's style is saved and forced
WorkerConfigured ==
    /\ seqPc = "configuring"
    /\ wOutbox # << >>
    /\ wOutbox' = Tail(wOutbox)
    /\ IF Head(wOutbox).type = "configured"
       THEN /\ seqPc' = "loopTop"
            /\ ui' = [ ui EXCEPT !.style = "forced" ]
            /\ UNCHANGED << errorShown, isExporting >>
       ELSE /\ seqPc' = "error"
            /\ ui' = Finally(ui)
            /\ errorShown' = "encoder error"
            /\ isExporting' = FALSE
    /\ UNCHANGED << variant, editorVars, parOnly, now, frameDirs, outputs, cancelledIn,
                    seqFrame, seqTotal, seqSid, finalizeSent, downloaded,
                    batchOnly, wInbox, encState, muxed, encFailed >>

\* lines 143-146: during the loop worker.onmessage is still the handler of the
\* settled configuration promise; what arrives is dropped
WorkerMessageDropped ==
    /\ variant = "worker"
    /\ seqPc = "capturing"
    /\ wOutbox # << >>
    /\ wOutbox' = Tail(wOutbox)
    /\ UNCHANGED << variant, editorVars, parOnly, now, frameDirs, outputs, isExporting,
                    cancelledIn, seqPc, seqFrame, seqTotal, seqSid, finalizeSent,
                    downloaded, errorShown, batchOnly, ui, wInbox, encState, muxed,
                    encFailed >>

\* lines 177-186, 224-236, 253-283: the loop condition and the cancellation
\* check, then the camera is sampled at frame / fps; after the last frame
\* 'finalize' is posted
WorkerLoopTop ==
    /\ variant = "worker"
    /\ seqPc = "loopTop"
    /\ IF seqFrame >= seqTotal
       THEN /\ wInbox' = Append(wInbox, Msg("finalize", 0))
            /\ finalizeSent' = TRUE
            /\ seqPc' = "finalizing"
            /\ UNCHANGED << errorShown, cameraSamples, ui >>
       ELSE IF ~isExporting
            THEN /\ seqPc' = "error"
                 /\ errorShown' = "Export Cancelled"
                 /\ ui' = Finally(ui)
                 /\ UNCHANGED << wInbox, finalizeSent, cameraSamples >>
            ELSE /\ seqPc' = "capturing"
                 /\ cameraSamples' = cameraSamples \cup { SampleStep(0, seqFrame) }
                 /\ UNCHANGED << wInbox, finalizeSent, errorShown, ui >>
    /\ UNCHANGED << variant, lastStatus, kfVars, playVars, parOnly, now, frameDirs, outputs, isExporting,
                    cancelledIn, seqFrame, seqTotal, seqSid, downloaded,
                    batchOnly, wOutbox, encState, muxed, encFailed >>

\* an 'encode' message whose timestamp advances every second frame only
EncodeMsgCoarse(frame, fps) ==
    [ type |-> "encode", frame |-> frame,
      timestamp |-> << (frame \div 2) * 1000000, fps >>,
      keyFrame |-> (frame % (fps * 2) = 0) ]

\* lines 207-217: the 'encode' message of a frame; its timestamp,
\* frame * (1000000 / fps), is kept as the quotient frame * 1000000 / fps
EncodeMsg(frame, fps) ==
    [ type |-> "encode", frame |-> frame,
      timestamp |-> << frame * 1000000, fps >>,
      keyFrame |-> (frame % (fps * 2) = 0) ]

\* lines 186-222: the frame is captured and posted to the worker
WorkerCapture ==
    /\ variant = "worker"
    /\ seqPc = "capturing"
    /\ wInbox' = Append(wInbox, EncodeMsg(seqFrame, ui.fps))
    /\ seqFrame' = seqFrame + 1
    /\ seqPc' = "loopTop"
    /\ UNCHANGED << variant, editorVars, parOnly, now, frameDirs, outputs, isExporting,
                    cancelledIn, seqTotal, seqSid, finalizeSent, downloaded,
                    errorShown, batchOnly, ui, wOutbox, encState, muxed, encFailed >>

\* lines 231-283: the next message of the worker settles the export
WorkerFinished ==
    /\ seqPc = "finalizing"
    /\ wOutbox # << >>
    /\ wOutbox' = Tail(wOutbox)
    /\ IF Head(wOutbox).type = "complete"
       THEN /\ downloaded' = [ state |-> "complete", frames |-> muxed ]
            /\ seqPc' = "done"
            /\ UNCHANGED errorShown
       ELSE /\ errorShown' = "encoder error"
            /\ seqPc' = "error"
            /\ UNCHANGED downloaded
    /\ isExporting' = FALSE
    /\ ui' = Finally(ui)
    /\ UNCHANGED << variant, editorVars, parOnly, now, frameDirs, outputs, cancelledIn,
                    seqFrame, seqTotal, seqSid, finalizeSent, batchOnly,
                    wInbox, encState, muxed, encFailed >>

NextSequential ==
    \/ SeqCancel
    \/ BatchStart
    \/ ExportStart
    \/ BatchStarted
    \/ BatchLoopTop
    \/ BatchCapture
    \/ BatchYield
    \/ \E k \in 1 .. MaxSeqFrames : UploadOk(k)
    \/ \E k \in 1 .. MaxSeqFrames : UploadHttpError(k)
    \/ \E k \in 1 .. MaxSeqFrames : UploadReject(k)
    \/ BatchWaitAll
    \/ ExportFinishOk
    \/ ExportFinishFail
    \/ FinishCleanup
    \/ BatchFinished
    \/ BatchReset
    \/ WorkerStart
    \/ WorkerConfigure
    \/ WorkerConfigureFail
    \/ WorkerEncode
    \/ WorkerEncodeError
    \/ WorkerFinalize
    \/ WorkerFinalizeFail
    \/ WorkerConfigured
    \/ WorkerMessageDropped
    \/ WorkerLoopTop
    \/ WorkerCapture
    \/ WorkerFinished

SpecSequential == InitSequential /\ [][NextSequential]_vars

\* a client of the worker posts the next message (worker line 7 takes any)
PostToWorker ==
    /\ variant = "encoder"
    /\ Len(wInbox) + Len(wOutbox) + Len(muxed) < MaxWorkerMessages
    /\ \E m \in { Msg("configure", 0), Msg("finalize", 0) }
               \cup { EncodeMsg(f, 1) : f \in 0 .. 1 } :
         wInbox' = Append(wInbox, m)
    /\ UNCHANGED << variant, editorVars, parOnly, now, frameDirs, outputs,
                    isExporting, cancelledIn, seqPc, seqFrame, seqTotal, seqSid,
                    finalizeSent, downloaded, errorShown, batchOnly, ui,
                    wOutbox, encState, muxed, encFailed >>

\* video-encoder-worker.js alone, its messages in any order
NextWorker ==
    \/ PostToWorker
    \/ WorkerConfigure
    \/ WorkerConfigureFail
    \/ WorkerEncode
    \/ WorkerEncodeError
    \/ WorkerFinalize
    \/ WorkerFinalizeFail

InitWorker == InitCommon /\ variant = "encoder"

SpecWorker == InitWorker /\ [][NextWorker]_vars

\* one VideoExporter of part_003: its worker-based export, and its parallel
\* export up to a start the server refuses; btn-server-export stays enabled
\* during startExport (line 107 disables btn-start-export only)
NextExporter ==
    \/ SeqCancel
    \/ WorkerStart
    \/ WorkerConfigure
    \/ WorkerConfigureFail
    \/ WorkerEncode
    \/ WorkerEncodeError
    \/ WorkerFinalize
    \/ WorkerFinalizeFail
    \/ WorkerConfigured
    \/ WorkerMessageDropped
    \/ WorkerLoopTop
    \/ WorkerCapture
    \/ WorkerFinished
    \/ ClientStart
    \/ ClientRequest
    \/ HybridLaunchFail(ClientReq)
    \/ ClientStarted

InitExporter == InitCommon /\ variant = "worker"

SpecExporter == InitExporter /\ [][NextExporter]_vars

\* every export: the run exercises one of the three
Next ==
    \/ variant = "parallel" /\ NextParallel
    \/ variant # "parallel" /\ NextSequential

Spec == Init /\ [][Next]_vars

\* ================================================== JavaScript numbers
\* A number is m * 2^e with m = 0 or 2^(Precision-1) <= |m| < 2^Precision.
RECURSIVE Pow2(_)
Pow2(k) == IF k <= 0 THEN 1 ELSE 2 * Pow2(k - 1)

RECURSIVE Bits(_)
Bits(n) == IF n = 0 THEN 0 ELSE 1 + Bits(n \div 2)

Abs(n) == IF n < 0 THEN -n ELSE n
Sign(n) == IF n < 0 THEN -1 ELSE 1

Zero == [ m |-> 0, e |-> 0 ]

\* n * 2^e (n > 0; a little more when inexact) rounded to Precision bits
RoundMag(n, e, inexact) ==
    LET s == Bits(n) - Precision IN
    IF s <= 0
    THEN [ m |-> n * Pow2(-s), e |-> e + s ]
    ELSE LET q == n \div Pow2(s)
             r == n % Pow2(s)
             half == Pow2(s - 1)
             up == r > half \/ (r = half /\ (inexact \/ q % 2 = 1))
             q1 == IF up THEN q + 1 ELSE q
         IN  IF q1 = Pow2(Precision)
             THEN [ m |-> Pow2(Precision - 1), e |-> e + s + 1 ]
             ELSE [ m |-> q1, e |-> e + s ]

\* the number nearest to n * 2^e
Round(n, e, inexact) ==
    IF n = 0 THEN Zero
    ELSE LET mag == RoundMag(Abs(n), e, inexact)
         IN  [ m |-> Sign(n) * mag.m, e |-> mag.e ]

\* an integer literal or a stored integer value
ToNumber(v) == Round(v, 0, FALSE)

Neg(x) == [ m |-> -x.m, e |-> x.e ]

\* x + y
NumAdd(x, y) ==
    IF x.m = 0 THEN y
    ELSE IF y.m = 0 THEN x
    ELSE LET hi == IF x.e >= y.e THEN x ELSE y
             lo == IF x.e >= y.e THEN y ELSE x
             diff == hi.e - lo.e
         IN  IF diff > Precision + 2 THEN hi
             ELSE Round(hi.m * Pow2(diff) + lo.m, lo.e, FALSE)

\* x - y
NumSub(x, y) == NumAdd(x, Neg(y))

\* x * y
NumMul(x, y) == Round(x.m * y.m, x.e + y.e, FALSE)

\* x / y, y # 0
NumDiv(x, y) ==
    LET n == Abs(x.m) * Pow2(Precision + 2)
        q == n \div Abs(y.m)
    IN  Round(Sign(x.m) * Sign(y.m) * q, x.e - y.e - (Precision + 2),
              n % Abs(y.m) # 0)

\* Math.pow(x, 3)
NumCube(x) == Round(x.m * x.m * x.m, 3 * x.e, FALSE)

\* x < y
NumLess(x, y) == NumSub(x, y).m < 0 /\ x # y

\* ======================================================== the playhead
\* Times are whole seconds: Date.now() / 1000, currentTime, duration.
Max(a, b) == IF a >= b THEN a ELSE b
Lesser(a, b) == IF a <= b THEN a ELSE b

\* Math.max(0, Math.min(time, duration))
ClampTime(time, dur) == Max(0, Lesser(time, dur))

\* the values the duration input takes, and the times a seek asks for
Durations == { TimeStep * k : k \in 1 .. MaxDurationSteps }
SeekTimes == { TimeStep * k : k \in -1 .. MaxDurationSteps + 1 }

\* Date.now() when a handler runs: not before the last reading
PlayClock == { TimeStep * k : k \in 0 .. MaxPlayClockSteps } \ 0 .. now - 1

\* setInterval, line 507: a new interval runs, its handle is kept in
\* playInterval (handles are named by the least number free)
SetInterval(timers) ==
    LET id == CHOOSE n \in 1 .. Cardinality(timers.active) + 1 :
                  /\ n \notin timers.active
                  /\ \A m \in 1 .. n - 1 : m \in timers.active
    IN  [ handle |-> id, active |-> timers.active \cup { id }, tick |-> FALSE ]

\* a pause that leaves the interval running
ClearIntervalNot(timers) == [ timers EXCEPT !.tick = FALSE ]

\* clearInterval(this.playInterval), line 534
ClearInterval(timers) ==
    [ timers EXCEPT !.active = @ \ { timers.handle }, !.tick = FALSE ]

\* AnimationController.play, lines 498-528
PlayheadPlay ==
    /\ variant = "playback"
    /\ ~isPlaying
    /\ \E t \in PlayClock :
         /\ now' = t
         /\ playStartTime' = t - currentTime
    /\ isPlaying' = TRUE
    /\ playTimers' = SetInterval(playTimers)
    /\ UNCHANGED << currentTime, duration, loop, tlCurrentTime, tlDuration >>
    /\ UNCHANGED << lastStatus, cameraSamples, kfVars, seqAll, variant >>
    /\ UNCHANGED << reqPc, sid, totalFrames, status, task, mon, sessionsFile,
                    frameDirs, outputs, isExporting, clientPc, cancelledIn,
                    lastDownload >>

\* what a tick of the play interval makes of the time since playStartTime
\* (lines 509-519): << currentTime, playStartTime, isPlaying >>
AfterTick(t, start, dur, looping) ==
    IF t - start >= dur
    THEN IF looping THEN << 0, t, TRUE >> ELSE << dur, start, FALSE >>
    ELSE << t - start, start, TRUE >>

\* the setInterval callback of play, lines 507-525, with
\* TimelineEditor.updatePlayhead; it runs while its interval is not cleared,
\* and ends the playback through pause() (line 517)
PlayheadTick ==
    /\ variant = "playback"
    /\ playTimers.active # {}
    /\ \E t \in PlayClock :
         LET after == AfterTick(t, playStartTime, duration, loop) IN
         /\ now' = t
         /\ currentTime' = after[1]
         /\ playStartTime' = after[2]
         /\ isPlaying' = (isPlaying /\ after[3])
         /\ playTimers' = [ ( IF isPlaying /\ ~after[3]
                                THEN ClearInterval(playTimers)
                                ELSE playTimers ) EXCEPT !.tick = TRUE ]
         /\ tlCurrentTime' = after[1]
    /\ UNCHANGED << duration, loop, tlDuration >>
    /\ UNCHANGED << lastStatus, cameraSamples, kfVars, seqAll, variant >>
    /\ UNCHANGED << reqPc, sid, totalFrames, status, task, mon, sessionsFile,
                    frameDirs, outputs, isExporting, clientPc, cancelledIn,
                    lastDownload >>

\* AnimationController.pause, lines 530-540
PlayheadPause ==
    /\ variant = "playback"
    /\ isPlaying
    /\ isPlaying' = FALSE
    /\ playTimers' = ClearInterval(playTimers)
    /\ UNCHANGED << currentTime, duration, playStartTime, loop, tlCurrentTime,
                    tlDuration >>
    /\ UNCHANGED << lastStatus, cameraSamples, kfVars, seqAll, variant >>
    /\ UNCHANGED << now, reqPc, sid, totalFrames, status, task, mon,
                    sessionsFile, frameDirs, outputs, isExporting, clientPc,
                    cancelledIn, lastDownload >>

\* AnimationController.stop, lines 542-548
PlayheadStop ==
    /\ variant = "playback"
    /\ isPlaying' = FALSE
    /\ playTimers' = IF isPlaying THEN ClearInterval(playTimers)
                     ELSE [ playTimers EXCEPT !.tick = FALSE ]
    /\ currentTime' = 0
    /\ tlCurrentTime' = 0
    /\ UNCHANGED << duration, playStartTime, loop, tlDuration >>
    /\ UNCHANGED << lastStatus, cameraSamples, kfVars, seqAll, variant >>
    /\ UNCHANGED << now, reqPc, sid, totalFrames, status, task, mon,
                    sessionsFile, frameDirs, outputs, isExporting, clientPc,
                    cancelledIn, lastDownload >>

\* AnimationController.seekTo, lines 551-557
PlayheadSeekTo(time) ==
    /\ variant = "playback"
    /\ currentTime' = ClampTime(time, duration)
    /\ tlCurrentTime' = ClampTime(time, duration)
    /\ UNCHANGED << duration, isPlaying, playStartTime, loop, tlDuration >>
    /\ playTimers' = [ playTimers EXCEPT !.tick = FALSE ]
    /\ UNCHANGED << lastStatus, cameraSamples, kfVars, seqAll, variant >>
    /\ UNCHANGED << now, reqPc, sid, totalFrames, status, task, mon,
                    sessionsFile, frameDirs, outputs, isExporting, clientPc,
                    cancelledIn, lastDownload >>

\* the change handler of the duration input (app.js, lines 181-187):
\* AnimationController.setDuration and TimelineEditor.setDuration
PlayheadSetDuration(d) ==
    /\ variant = "playback"
    /\ duration' = d
    /\ tlDuration' = d
    /\ UNCHANGED << currentTime, isPlaying, playStartTime, loop, tlCurrentTime >>
    /\ playTimers' = [ playTimers EXCEPT !.tick = FALSE ]
    /\ UNCHANGED << lastStatus, cameraSamples, kfVars, seqAll, variant >>
    /\ UNCHANGED << now, reqPc, sid, totalFrames, status, task, mon,
                    sessionsFile, frameDirs, outputs, isExporting, clientPc,
                    cancelledIn, lastDownload >>

\* AnimationController.toggleLoop, lines 573-576
PlayheadToggleLoop ==
    /\ variant = "playback"
    /\ loop' = ~loop
    /\ UNCHANGED << currentTime, duration, isPlaying, playStartTime,
                    tlCurrentTime, tlDuration >>
    /\ playTimers' = [ playTimers EXCEPT !.tick = FALSE ]
    /\ UNCHANGED << lastStatus, cameraSamples, kfVars, seqAll, variant >>
    /\ UNCHANGED << now, reqPc, sid, totalFrames, status, task, mon,
                    sessionsFile, frameDirs, outputs, isExporting, clientPc,
                    cancelledIn, lastDownload >>

\* TimelineEditor.setCurrentTime (a click or a drag on the ruler),
\* timeline-editor.js lines 328-335
TimelineSetCurrentTime(time) ==
    /\ variant = "playback"
    /\ tlCurrentTime' = ClampTime(time, tlDuration)
    /\ UNCHANGED << currentTime, duration, isPlaying, playStartTime, loop,
                    tlDuration >>
    /\ playTimers' = [ playTimers EXCEPT !.tick = FALSE ]
    /\ UNCHANGED << lastStatus, cameraSamples, kfVars, seqAll, variant >>
    /\ UNCHANGED << now, reqPc, sid, totalFrames, status, task, mon,
                    sessionsFile, frameDirs, outputs, isExporting, clientPc,
                    cancelledIn, lastDownload >>

InitPlayback == InitCommon /\ variant = "playback"

NextPlayback ==
    \/ PlayheadPlay
    \/ PlayheadTick
    \/ PlayheadPause
    \/ PlayheadStop
    \/ \E time \in SeekTimes : PlayheadSeekTo(time)
    \/ \E d \in Durations : PlayheadSetDuration(d)
    \/ PlayheadToggleLoop
    \/ \E time \in SeekTimes : TimelineSetCurrentTime(time)

SpecPlayback == InitPlayback /\ [][NextPlayback]_vars

\* ==================================================== the keyframe store
\* KeyframeManager of keyframe-manager.js. A keyframe is an object of the
\* keyframes array; the model names it by its position in the array.
Curves == { "linear", "easeIn", "easeOut", "easeInOut", "bezier" }

\* the cameras and curves the property panel holds when a keyframe is added
\* or updated: one camera with each curve, another with the default curve
Looks ==
    { [ camera |-> [ latitude |-> ToNumber(-9), longitude |-> ToNumber(10),
                     zoom |-> ToNumber(3) ],
        interpolationType |-> type ] : type \in Curves }
        \cup
    { [ camera |-> [ latitude |-> ToNumber(10), longitude |-> ToNumber(-9),
                     zoom |-> ToNumber(12) ],
        interpolationType |-> "easeInOut" ] }

KeyTimes == 0 .. MaxTime

QueryTimes == 0 .. MaxTime + 1

\* new Keyframe(time, cameraData, interpolationType), lines 4-11
Keyframe(time, cameraData, interpolationType) ==
    [ time |-> time,
      latitude |-> cameraData.latitude,
      longitude |-> cameraData.longitude,
      zoom |-> cameraData.zoom,
      interpolationType |-> interpolationType ]

Keyframes ==
    { Keyframe(time, look.camera, look.interpolationType) :
        time \in KeyTimes, look \in Looks }

\* Keyframe.toJSON, lines 21-29
ToJSON(kf) ==
    [ time |-> kf.time, latitude |-> kf.latitude, longitude |-> kf.longitude,
      zoom |-> kf.zoom, interpolationType |-> kf.interpolationType ]

\* one step of the stable sort: kf goes behind every element that does not
\* compare greater than it
InsertByTime(sorted, kf) ==
    LET n == Cardinality({ i \in 1 .. Len(sorted) : sorted[i].time <= kf.time })
    IN  SubSeq(sorted, 1, n) \o << kf >> \o SubSeq(sorted, n + 1, Len(sorted))

\* sortKeyframes, lines 112-114: Array.prototype.sort by a.time - b.time,
\* which is stable
RECURSIVE SortKeyframes(_)
SortKeyframes(kfs) ==
    IF kfs = << >> THEN << >>
    ELSE InsertByTime(SortKeyframes(SubSeq(kfs, 1, Len(kfs) - 1)),
                      kfs[Len(kfs)])

\* the array after a push that no sort follows
WithKeyframeUnsorted(kfs, kf) == Append(kfs, kf)

\* the callbacks, called last subscribed first
EmitNewestFirst(ls, kfs) ==
    [ k \in 1 .. Len(ls) |->
        [ callback |-> ls[Len(ls) + 1 - k], keyframes |-> kfs ] ]

\* emit('keyframesChanged', this.keyframes), lines 61-65: every callback of
\* the list is called, in the order of the list, with the array
Emit(ls, kfs) ==
    [ k \in 1 .. Len(ls) |-> [ callback |-> ls[k], keyframes |-> kfs ] ]

\* on('keyframesChanged', callback), lines 55-59; every subscriber passes a
\* closure of its own (timeline-editor.js line 42, path-visualizer.js line 11)
On(callback) ==
    /\ variant = "keyframes"
    /\ sampled = NoSample
    /\ Len(listeners) < MaxListeners
    /\ \A k \in 1 .. Len(listeners) : listeners[k] # callback
    /\ listeners' = Append(listeners, callback)
    /\ UNCHANGED << keyframes, selectedKeyframe, sampled, emitted, lastStatus,
                    cameraSamples, playVars, parVars, seqAll, variant >>

\* where the stable sort of lines 112-114 puts the keyframe that is at
\* position p of the array before the sort (0 stays 0): the selected keyframe
\* is an object and keeps being selected wherever the sort moves it
PlaceAfterSort(kfs, p) ==
    IF p = 0 THEN 0
    ELSE 1 + Cardinality({ j \in (1 .. Len(kfs)) \ { p } :
                             \/ kfs[j].time < kfs[p].time
                             \/ kfs[j].time = kfs[p].time /\ j < p })

\* a removal that leaves the selection on the removed keyframe
AfterRemoveKeepsSelection(sel, i) == IF sel > i THEN sel - 1 ELSE sel

\* lines 79-84: the keyframe at position i is spliced out; the selection is
\* reset when it was that keyframe, and follows its keyframe otherwise
AfterRemove(sel, i) ==
    IF sel = i THEN 0 ELSE IF sel > i THEN sel - 1 ELSE sel

\* selectKeyframe, lines 101-104; the callers pass a keyframe of the array
\* (timeline-editor.js line 138, part_003 line 841)
SelectKeyframe(i) ==
    /\ variant = "keyframes"
    /\ sampled = NoSample
    /\ i \in 1 .. Len(keyframes)
    /\ selectedKeyframe' = i
    /\ emitted' = [ op |-> "selectKeyframe", calls |-> << >>,
                    selected |-> << i >> ]
    /\ UNCHANGED << keyframes, sampled, listeners, lastStatus, cameraSamples,
                    playVars, parVars, seqAll, variant >>

\* addKeyframe as a function of the array, lines 68-74
WithKeyframe(kfs, kf) == SortKeyframes(Append(kfs, kf))

\* addKeyframe, lines 68-74
AddKeyframe(kf) ==
    /\ variant = "keyframes"
    /\ sampled = NoSample
    /\ Len(keyframes) < MaxKeyframes
    /\ keyframes' = WithKeyframe(keyframes, kf)
    /\ selectedKeyframe' = PlaceAfterSort(Append(keyframes, kf), selectedKeyframe)
    /\ emitted' = [ op |-> "addKeyframe", calls |-> Emit(listeners, keyframes'),
                    selected |-> << >> ]
    /\ UNCHANGED << sampled, listeners, lastStatus, cameraSamples, playVars,
                    parVars, seqAll, variant >>

\* removeKeyframe, lines 77-90
RemoveKeyframe(i) ==
    /\ variant = "keyframes"
    /\ sampled = NoSample
    /\ i \in 1 .. Len(keyframes)
    /\ keyframes' = SubSeq(keyframes, 1, i - 1)
                        \o SubSeq(keyframes, i + 1, Len(keyframes))
    /\ selectedKeyframe' = AfterRemove(selectedKeyframe, i)
    /\ emitted' = [ op |-> "removeKeyframe",
                    calls |-> Emit(listeners, keyframes'),
                    selected |-> IF selectedKeyframe' = 0 /\ selectedKeyframe # 0
                                 THEN << 0 >> ELSE << >> ]
    /\ UNCHANGED << sampled, listeners, lastStatus, cameraSamples, playVars,
                    parVars, seqAll, variant >>

\* what the callers of updateKeyframe pass: the timeline drag passes a time
\* (timeline-editor.js line 206), the property panel passes a camera and a
\* curve (part_003 lines 849-854)
Updates ==
    { [ kind |-> "time", time |-> time ] : time \in KeyTimes }
        \cup
    { [ kind |-> "camera", camera |-> look.camera,
        interpolationType |-> look.interpolationType ] : look \in Looks }

\* Object.assign(keyframe, newData), line 94
Assign(kf, newData) ==
    IF newData.kind = "time"
    THEN [ kf EXCEPT !.time = newData.time ]
    ELSE Keyframe(kf.time, newData.camera, newData.interpolationType)

\* updateKeyframe, lines 93-98
UpdateKeyframe(i, newData) ==
    /\ variant = "keyframes"
    /\ sampled = NoSample
    /\ i \in 1 .. Len(keyframes)
    /\ keyframes' =
           SortKeyframes([ keyframes EXCEPT ![i] = Assign(@, newData) ])
    /\ selectedKeyframe' =
           PlaceAfterSort([ keyframes EXCEPT ![i] = Assign(@, newData) ],
                          selectedKeyframe)
    /\ emitted' = [ op |-> "updateKeyframe",
                    calls |-> Emit(listeners, keyframes'), selected |-> << >> ]
    /\ UNCHANGED << sampled, listeners, lastStatus, cameraSamples, playVars,
                    parVars, seqAll, variant >>

\* clear, lines 176-180
Clear ==
    /\ variant = "keyframes"
    /\ sampled = NoSample
    /\ keyframes' = << >>
    /\ selectedKeyframe' = 0
    /\ emitted' = [ op |-> "clear", calls |-> Emit(listeners, << >>),
                    selected |-> << >> ]
    /\ UNCHANGED << sampled, listeners, lastStatus, cameraSamples, playVars,
                    parVars, seqAll, variant >>

\* the keyframes of a project file: written by exportToJSON (the keyframes'
\* toJSON), or by the older version that stored a height and no zoom
ProjectKeyframes ==
    { [ time |-> time, latitude |-> ToNumber(-9), longitude |-> ToNumber(10),
        zoom |-> ToNumber(3), interpolationType |-> "linear",
        legacy |-> FALSE ] : time \in { 0, MaxTime } }
        \cup
    { [ time |-> 1, latitude |-> ToNumber(10), longitude |-> ToNumber(-9),
        zoom |-> Zero, interpolationType |-> "easeOut", legacy |-> TRUE ] }

ProjectFiles ==
    UNION { [ 1 .. n -> ProjectKeyframes ] : n \in 0 .. MaxKeyframes }

\* the forEach of importFromJSON, lines 194-203
RECURSIVE ImportAll(_, _)
ImportAll(kfs, data) ==
    IF data = << >> THEN kfs
    ELSE LET kfData == Head(data)
             zoom == IF kfData.legacy THEN ToNumber(10) ELSE kfData.zoom
             kf == Keyframe(kfData.time,
                            [ latitude |-> kfData.latitude,
                              longitude |-> kfData.longitude,
                              zoom |-> zoom ],
                            kfData.interpolationType)
         IN  ImportAll(WithKeyframe(kfs, kf), Tail(data))

\* the calls the addKeyframe calls of importFromJSON make, lines 194-203
RECURSIVE ImportCalls(_, _, _)
ImportCalls(ls, kfs, data) ==
    IF data = << >> THEN << >>
    ELSE LET next == ImportAll(kfs, << Head(data) >>)
         IN  Emit(ls, next) \o ImportCalls(ls, next, Tail(data))

\* importFromJSON, lines 191-205
ImportFromJSON(data) ==
    /\ variant = "keyframes"
    /\ sampled = NoSample
    /\ keyframes' = ImportAll(<< >>, data)
    /\ emitted' = [ op |-> "importFromJSON",
                    calls |-> Emit(listeners, << >>)
                                  \o ImportCalls(listeners, << >>, data),
                    selected |-> << >> ]
    /\ selectedKeyframe' = 0
    /\ UNCHANGED << sampled, listeners, lastStatus, cameraSamples, playVars,
                    parVars, seqAll, variant >>

\* ------------------------------------------------------ interpolation
\* a decimal literal n / d
Literal(n, d) == NumDiv(ToNumber(n), ToNumber(d))

\* a curve that squares its argument
LinearSquared(t) == NumMul(t, t)

\* Interpolation.linear, path-manager.js lines 272-274
Linear(t) == t

\* Interpolation.easeIn, lines 277-279
EaseIn(t) == NumMul(NumMul(t, t), t)

\* Interpolation.easeOut, lines 282-284
EaseOut(t) == NumSub(ToNumber(1), NumCube(NumSub(ToNumber(1), t)))

\* Interpolation.easeInOut, lines 287-291
EaseInOut(t) ==
    IF NumLess(t, Literal(1, 2))
    THEN NumMul(NumMul(NumMul(ToNumber(4), t), t), t)
    ELSE NumSub(ToNumber(1),
                NumDiv(NumCube(NumAdd(NumMul(ToNumber(-2), t), ToNumber(2))),
                       ToNumber(2)))

\* the coefficients of Interpolation.bezier for its default control points
\* p1 = 0.42, p2 = 0, p3 = 0.58, p4 = 1, lines 294-302
BezierCx == NumMul(ToNumber(3), Literal(42, 100))
BezierBx ==
    NumSub(NumMul(ToNumber(3), NumSub(Literal(58, 100), Literal(42, 100))),
           BezierCx)
BezierAx == NumSub(NumSub(ToNumber(1), BezierCx), BezierBx)
BezierCy == NumMul(ToNumber(3), Zero)
BezierBy == NumSub(NumMul(ToNumber(3), NumSub(ToNumber(1), Zero)), BezierCy)
BezierAy == NumSub(NumSub(ToNumber(1), BezierCy), BezierBy)

\* sampleCurveX and sampleCurveY, lines 304-305
SampleCurveX(t) ==
    NumMul(NumAdd(NumMul(NumAdd(NumMul(BezierAx, t), BezierBx), t),
                  BezierCx), t)
SampleCurveY(t) ==
    NumMul(NumAdd(NumMul(NumAdd(NumMul(BezierAy, t), BezierBy), t),
                  BezierCy), t)

NumAbs(x) == [ m |-> Abs(x.m), e |-> x.e ]

\* the Newton-Raphson loop, lines 308-315
RECURSIVE BezierSolve(_, _, _)
BezierSolve(t, t2, i) ==
    IF i >= 8 THEN t2
    ELSE LET x == NumSub(SampleCurveX(t2), t)
             d == NumAdd(NumMul(NumAdd(NumMul(NumMul(ToNumber(3), BezierAx),
                                              t2),
                                       NumMul(ToNumber(2), BezierBx)), t2),
                         BezierCx)
         IN  IF NumLess(NumAbs(x), Literal(1, 1000)) THEN t2
             ELSE IF NumLess(NumAbs(d), Literal(1, 1000000)) THEN t2
             ELSE BezierSolve(t, NumSub(t2, NumDiv(x, d)), i + 1)

\* Interpolation.bezier, lines 294-318
Bezier(t) == SampleCurveY(BezierSolve(t, t, 0))

\* this[type](t), line 322
Eased(t, type) ==
    CASE type = "linear" -> Linear(t)
      [] type = "easeIn" -> EaseIn(t)
      [] type = "easeOut" -> EaseOut(t)
      [] type = "easeInOut" -> EaseInOut(t)
      [] type = "bezier" -> Bezier(t)
      [] OTHER -> Linear(t)

\* Interpolation.interpolate, lines 321-324
Interpolate(a, b, t, type) == NumAdd(a, NumMul(NumSub(b, a), Eased(t, type)))

\* the loop with the comparisons made strict
RECURSIVE SurroundingFromStrict(_, _, _, _)
SurroundingFromStrict(kfs, time, i, before) ==
    IF i > Len(kfs) THEN [ before |-> before, after |-> 0 ]
    ELSE LET b == IF kfs[i].time < time THEN i ELSE before
         IN  IF kfs[i].time > time
             THEN [ before |-> b, after |-> i ]
             ELSE SurroundingFromStrict(kfs, time, i + 1, b)

\* the loop of getSurroundingKeyframes, lines 123-131; 0 stands for null
RECURSIVE SurroundingFrom(_, _, _, _)
SurroundingFrom(kfs, time, i, before) ==
    IF i > Len(kfs) THEN [ before |-> before, after |-> 0 ]
    ELSE LET b == IF kfs[i].time <= time THEN i ELSE before
         IN  IF kfs[i].time >= time
             THEN [ before |-> b, after |-> i ]
             ELSE SurroundingFrom(kfs, time, i + 1, b)

\* a lookup that finds no keyframe on either side
GetSurroundingKeyframesNone(kfs, time) == [ before |-> 0, after |-> 0 ]

\* getSurroundingKeyframes, lines 117-134
GetSurroundingKeyframes(kfs, time) ==
    IF Len(kfs) = 0 THEN [ before |-> 0, after |-> 0 ]
    ELSE SurroundingFrom(kfs, time, 1, 0)

\* a default camera at the origin
DefaultCameraOrigin == [ latitude |-> Zero, longitude |-> Zero, zoom |-> Zero ]

\* the camera interpolateAt answers when there is no keyframe, lines 142-146
DefaultCamera ==
    [ latitude |-> Literal(356762, 10000),
      longitude |-> Literal(1396503, 10000),
      zoom |-> ToNumber(13) ]

\* the elapsed time, not divided by the segment's duration
PositionElapsed(before, after, time) == ToNumber(time - before.time)

\* the interpolation factor t of interpolateAt, lines 155-157
Position(before, after, time) ==
    LET span == ToNumber(after.time - before.time)
        elapsed == ToNumber(time - before.time)
    IN  IF span.m > 0 THEN NumDiv(elapsed, span) ELSE Zero

\* interpolateAt with the curve taken from the keyframe the segment ends at
InterpolateAtAfterCurve(kfs, time) ==
    LET around == GetSurroundingKeyframes(kfs, time)
        before == kfs[around.before]
        after == kfs[around.after]
        t == Position(before, after, time)
        interpType == after.interpolationType
    IN  IF around.before = 0 /\ around.after = 0 THEN DefaultCamera
        ELSE IF around.before = 0 THEN ToJSON(after)
        ELSE IF around.after = 0 THEN ToJSON(before)
        ELSE IF around.before = around.after THEN ToJSON(before)
        ELSE [ latitude |->
                   Interpolate(before.latitude, after.latitude, t, interpType),
               longitude |->
                   Interpolate(before.longitude, after.longitude, t,
                               interpType),
               zoom |-> Interpolate(before.zoom, after.zoom, t, interpType) ]

\* interpolateAt, lines 137-168
InterpolateAt(kfs, time) ==
    LET around == GetSurroundingKeyframes(kfs, time)
        before == kfs[around.before]
        after == kfs[around.after]
        t == Position(before, after, time)
        interpType == before.interpolationType
    IN  IF around.before = 0 /\ around.after = 0 THEN DefaultCamera
        ELSE IF around.before = 0 THEN ToJSON(after)
        ELSE IF around.after = 0 THEN ToJSON(before)
        ELSE IF around.before = around.after THEN ToJSON(before)
        ELSE [ latitude |->
                   Interpolate(before.latitude, after.latitude, t, interpType),
               longitude |->
                   Interpolate(before.longitude, after.longitude, t,
                               interpType),
               zoom |-> Interpolate(before.zoom, after.zoom, t, interpType) ]

\* a caller of interpolateAt (AnimationController.updateCamera, part_003
\* line 561) asks for the camera at a time; the answer is kept next to the
\* keyframes it was computed from
Sample(time) ==
    /\ variant = "keyframes"
    /\ sampled = NoSample
    /\ sampled' = [ asked |-> TRUE,
                    time |-> time,
                    around |-> GetSurroundingKeyframes(keyframes, time),
                    camera |-> InterpolateAt(keyframes, time) ]
    /\ UNCHANGED << keyframes, selectedKeyframe, listeners, emitted,
                    lastStatus, cameraSamples, playVars, parVars, seqAll,
                    variant >>

InitKeyframes == InitCommon /\ variant = "keyframes"

NextKeyframes ==
    \/ \E kf \in Keyframes : AddKeyframe(kf)
    \/ \E i \in 1 .. MaxKeyframes : RemoveKeyframe(i)
    \/ \E i \in 1 .. MaxKeyframes, newData \in Updates :
           UpdateKeyframe(i, newData)
    \/ Clear
    \/ \E data \in ProjectFiles : ImportFromJSON(data)
    \/ \E time \in QueryTimes : Sample(time)

SpecKeyframes == InitKeyframes /\ [][NextKeyframes]_vars

\* the closures the components subscribe
Callbacks == 1 .. MaxListeners

\* the store under subscriptions and a few edits
EventKeyframes ==
    { kf \in Keyframes :
        kf.time \in { 0, MaxTime } /\ kf.interpolationType = "easeInOut" }

NextEvents ==
    \/ \E callback \in Callbacks : On(callback)
    \/ \E kf \in EventKeyframes : AddKeyframe(kf)
    \/ \E i \in 1 .. MaxKeyframes : RemoveKeyframe(i)
    \/ \E i \in 1 .. MaxKeyframes, time \in { 0, MaxTime } :
           UpdateKeyframe(i, [ kind |-> "time", time |-> time ])

SpecEvents == InitKeyframes /\ [][NextEvents]_vars

\* project files of the two plain keyframes
SelectionFiles ==
    UNION { [ 1 .. n -> { kf \in ProjectKeyframes : ~kf.legacy } ] :
              n \in 0 .. MaxKeyframes }

\* the store under selections and edits
NextSelection ==
    \/ \E kf \in EventKeyframes : AddKeyframe(kf)
    \/ \E i \in 1 .. MaxKeyframes : SelectKeyframe(i)
    \/ \E i \in 1 .. MaxKeyframes : RemoveKeyframe(i)
    \/ \E i \in 1 .. MaxKeyframes, time \in { 0, MaxTime } :
           UpdateKeyframe(i, [ kind |-> "time", time |-> time ])
    \/ Clear
    \/ \E data \in SelectionFiles : ImportFromJSON(data)

SpecSelection == InitKeyframes /\ [][NextSelection]_vars

\* ================================================================ claims
Range(q) == { q[k] : k \in DOMAIN q }

\* C1 (as claimed): a completed parallel session holds exactly one descriptor
\* for every frameIndex in 0 .. totalFrames - 1, whatever tasks failed.
C1_CompletedHoldsEveryFrame ==
    \A r \in Requests :
        status[r].status = "completed" =>
            /\ Len(status[r].frames) = totalFrames[r]
            /\ Range(status[r].frames) = 0 .. totalFrames[r] - 1

\* C2 (as claimed): once a capture task of a session has thrown, the session
\* never becomes 'encoding' or 'completed', and no descriptor and no frame
\* file is written for it any more.
C2_TaskFailureFailsSession ==
    [][ \A r \in Requests :
          (\E i \in TaskIndices(r) : task[r][i] = "failed") =>
              /\ status'[r].status \notin { "encoding", "completed" }
              /\ status'[r].frames = status[r].frames
              /\ frameDirs'[sid[r]] = frameDirs[sid[r]] ]_vars

\* strictly ascending frameIndex
Ascending(frames) ==
    \A j, k \in DOMAIN frames : j < k => frames[j].frameIndex < frames[k].frameIndex

\* C3: in every pipeline the frames of the artifact are in ascending
\* frameIndex order: the output file of a parallel session or of
\* /export/finish, the video the browser downloads, the muxer's content.
C3_ArtifactAscending ==
    /\ \A id \in SessionIds : Ascending(outputs[id].frames)
    /\ Ascending(finishRes.body.frames)
    /\ Ascending(downloaded.frames)
    /\ Ascending(muxed)

\* C3 witness: a parallel session whose workers finished frame 1 before
\* frame 0 has been encoded into an artifact of at least two frames.
C3_Witness ==
    \E r \in Requests :
        /\ status[r].status = "completed"
        /\ Len(status[r].frames) >= 2
        /\ status[r].frames[1] > status[r].frames[2]
        /\ outputs[sid[r]].state = "complete"
        /\ Len(outputs[sid[r]].frames) >= 2

\* C4 (as claimed): a cancel while the capture loop runs (up to the last
\* frame's submission) means no finalize / finish request and no download.
C4_CancelInLoopMeansNoArtifact ==
    cancelledIn = "loop" => ~finalizeSent /\ downloaded = NoFile

\* C5 (as claimed): after a cancel issued while the client's session is
\* capturing, the session never is 'completed' and its artifact never is
\* downloadable.
C5_CancelStopsParallelSession ==
    cancelledIn = "processing" =>
        /\ status[ClientReq].status # "completed"
        /\ DownloadResponse(GetSession(sessionsFile, sid[ClientReq]),
                            outputs[sid[ClientReq]]).code # 200

\* C6: the download endpoint sends a file only for a record whose status is
\* 'completed'; for a record that is processing, encoding or in error it
\* answers 404 and sends nothing.
C6_DownloadOnlyWhenCompleted ==
    /\ lastDownload.code = 200 => lastDownload.recStatus = "completed"
    /\ lastDownload.recStatus \in { "processing", "encoding", "error" } =>
           lastDownload.code = 404 /\ lastDownload.body = "none"

\* C6 witness: a download was refused for a session whose encoder has an
\* unfinished output file on disk.
C6_Witness ==
    /\ lastDownload.code = 404
    /\ lastDownload.recStatus = "encoding"
    /\ \E id \in SessionIds : outputs[id] = Partial

\* the steps a session's status may take
StatusStep(from, to) ==
    \/ to = from
    \/ from = "none" /\ to = "processing"
    \/ from = "processing" /\ to \in { "encoding", "error" }
    \/ from = "encoding" /\ to \in { "completed", "error" }

\* C7: the status of a parallel session moves processing -> encoding ->
\* completed, or to error from processing or encoding; it never moves back,
\* never skips encoding, and completed and error are final.  The status is
\* that of the session's own status object (server.js:264-270), which every
\* step of the monitoring block changes; the record kept under the session's
\* id is the subject of C10.
C7_StatusMovesForward ==
    [][ \A r \in Requests : StatusStep(status[r].status, status'[r].status) ]_vars

\* C7 witness: a session has come through to completed.
C7_Witness ==
    \E r \in Requests : status[r].status = "completed" /\ mon[r] = "retained"

\* a frame submission has failed: an upload was rejected or answered with an
\* error, or an encode ended in an 'error' message during the loop
SubmissionFailed ==
    \/ \E k \in DOMAIN uploads : uploads[k].state \in { "rejected", "httpError" }
    \/ encFailed

\* C8 (as claimed): after a failed frame submission the sequential export
\* sends no finalize / finish request.
C8_FailedSubmissionStopsExport ==
    SubmissionFailed => ~finalizeSent

\* C9 (as claimed): the submissions outstanding at any moment stay below a
\* fixed bound K; here K is any bound below the frame count of the longest run.
C9_OutstandingBounded ==
    Outstanding < MaxSeqFrames

\* C10 (as claimed): the persisted record of every session holds what its
\* workers appended; no write for another session replaces it.
C10_NoLostSessionUpdate ==
    \A r \in Requests :
        status[r].status # "none" => GetSession(sessionsFile, sid[r]) = status[r]

\* the capture phase of a session is over
CaptureOver(r) == mon[r] \notin { "none", "waitIdle" }

\* C11 (as claimed, for the parallel pipeline): a frame whose wait for the
\* page to settle ran into its timeout is captured all the same; when the
\* capture phase is over the session holds a descriptor for it.
C11_TimedOutFrameIsCaptured ==
    \A r \in Requests :
        CaptureOver(r) =>
            \A i \in TaskIndices(r) :
                task[r][i] = "timedOut" => i \in Range(status[r].frames)

\* the record and the frame directory of a session are gone
Deleted(r) ==
    /\ sid[r] \in SessionIds
    /\ GetSession(sessionsFile, sid[r]) = NoRecord
    /\ frameDirs[sid[r]] = NoDir

\* C12 (as claimed): every session that has become completed or failed
\* eventually has its record and its frame directory deleted.
C12_TerminalSessionIsDeleted ==
    \A r \in Requests :
        (status[r].status \in { "completed", "error" }) ~> Deleted(r)

\* no session was ever created under the id
NeverCreated(id) == \A r \in Requests : sid[r] = id => status[r].status = "none"

\* the retention window of every session created under the id has expired
Expired(id) ==
    /\ \E r \in Requests : sid[r] = id
    /\ \A r \in Requests : sid[r] = id => mon[r] = "cleaned"

\* C13 (as claimed): a status poll or a download request for an id that was
\* never created, or whose retention window has expired, is answered 404.
C13_UnknownOrExpiredIsNotFound ==
    /\ lastStatus.code # 0 =>
         (NeverCreated(lastStatus.id) \/ Expired(lastStatus.id) =>
              lastStatus.code = 404)
    /\ lastDownload.code # 0 =>
         (NeverCreated(lastDownload.id) \/ Expired(lastDownload.id) =>
              lastDownload.code = 404)

\* C14: when ffmpeg fails after the capture, the session's status is 'error'
\* with the message set and no filePath, for good; the record saved by the
\* failing step is one the download endpoint answers with 404, whatever
\* ffmpeg left at the output path.
C14_EncodeFailureFailsSession ==
    /\ [] (\A r \in Requests :
             mon[r] = "encodeFailed" =>
                 /\ status[r].status = "error"
                 /\ status[r].message = "encodingFailed"
                 /\ ~status[r].filePath
                 /\ DownloadResponse(status[r], outputs[sid[r]]).code = 404)
    /\ [][ \A r \in Requests :
             (mon[r] = "encoding" /\ mon'[r] = "encodeFailed") =>
                 /\ GetSession(sessionsFile', sid[r]) = status'[r]
                 /\ DownloadResponse(GetSession(sessionsFile', sid[r]),
                                     outputs'[sid[r]]).code = 404 ]_vars

\* C14 witness: ffmpeg has failed and left an unfinished file at the
\* session's output path.
C14_Witness ==
    \E r \in Requests :
        /\ mon[r] = "encodeFailed"
        /\ outputs[sid[r]] = Partial
        /\ Len(status[r].frames) >= 1

\* C15 (as claimed): the playhead of the AnimationController and that of the
\* TimelineEditor lie in [0, duration] after every operation.
C15_PlayheadWithinDuration ==
    /\ 0 <= currentTime /\ currentTime <= duration
    /\ 0 <= tlCurrentTime /\ tlCurrentTime <= tlDuration

\* C16: whatever addKeyframe, updateKeyframe, removeKeyframe, clear and
\* importFromJSON calls have been made, the keyframes array is sorted by
\* non-decreasing time.
C16_KeyframesSortedByTime ==
    \A i \in 1 .. Len(keyframes) - 1 :
        keyframes[i].time <= keyframes[i + 1].time

\* the store is full and its first keyframe is earlier than its last
C16_Witness ==
    /\ Len(keyframes) = MaxKeyframes
    /\ keyframes[1].time < keyframes[MaxKeyframes].time

\* the positions of the keyframes at or before, and at or after, a time
AtOrBefore(time) == { i \in 1 .. Len(keyframes) : keyframes[i].time <= time }
AtOrAfter(time) == { i \in 1 .. Len(keyframes) : keyframes[i].time >= time }
Greatest(S) == CHOOSE i \in S : \A j \in S : j <= i
Least(S) == CHOOSE i \in S : \A j \in S : i <= j

\* C17 (as claimed): for a non-empty store and any query time,
\* getSurroundingKeyframes answers as before the last keyframe of the sequence
\* with time <= the query time and as after the first keyframe with
\* time >= the query time, ties in time included.
C17_BeforeIsLastAfterIsFirst ==
    (sampled.asked /\ Len(keyframes) > 0) =>
        /\ sampled.around.before =
               IF AtOrBefore(sampled.time) = {} THEN 0
               ELSE Greatest(AtOrBefore(sampled.time))
        /\ sampled.around.after =
               IF AtOrAfter(sampled.time) = {} THEN 0
               ELSE Least(AtOrAfter(sampled.time))

\* the camera is the stored camera of keyframe kf
SameCamera(camera, kf) ==
    /\ camera.latitude = kf.latitude
    /\ camera.longitude = kf.longitude
    /\ camera.zoom = kf.zoom

\* C18: with at least one keyframe stored, interpolateAt answers the first
\* keyframe's camera for a time before the first keyframe, the last keyframe's
\* camera for a time after the last keyframe, and the only keyframe's camera
\* for every time when the store holds one keyframe.
C18_NoExtrapolation ==
    (sampled.asked /\ Len(keyframes) > 0) =>
        /\ sampled.time < keyframes[1].time =>
               SameCamera(sampled.camera, keyframes[1])
        /\ sampled.time > keyframes[Len(keyframes)].time =>
               SameCamera(sampled.camera, keyframes[Len(keyframes)])
        /\ Len(keyframes) = 1 => SameCamera(sampled.camera, keyframes[1])

\* a time after the last of several keyframes was asked for, and the first
\* keyframe holds another camera than the last
C18_Witness ==
    /\ sampled.asked
    /\ Len(keyframes) = MaxKeyframes
    /\ sampled.time > keyframes[MaxKeyframes].time
    /\ keyframes[1].time < keyframes[MaxKeyframes].time
    /\ ~SameCamera(ToJSON(keyframes[1]), keyframes[MaxKeyframes])

\* C19 (as claimed): for every stored keyframe k, interpolateAt(k.time)
\* answers exactly k's stored latitude, longitude and zoom.
C19_EveryKeyframeRoundTrips ==
    sampled.asked =>
        \A i \in 1 .. Len(keyframes) :
            keyframes[i].time = sampled.time =>
                SameCamera(sampled.camera, keyframes[i])

\* C19 (amended): for every stored keyframe k whose time no other stored
\* keyframe shares, interpolateAt(k.time) answers exactly k's stored latitude,
\* longitude and zoom, whatever curves the keyframes carry.
C19_LoneKeyframeRoundTrips ==
    sampled.asked =>
        \A i \in 1 .. Len(keyframes) :
            (/\ keyframes[i].time = sampled.time
             /\ \A j \in 1 .. Len(keyframes) :
                    j # i => keyframes[j].time # sampled.time) =>
                SameCamera(sampled.camera, keyframes[i])

\* the time of the last keyframe was asked for, an earlier keyframe with a
\* bezier curve and another camera precedes it
C19_Witness ==
    /\ sampled.asked
    /\ Len(keyframes) = MaxKeyframes
    /\ sampled.time = keyframes[MaxKeyframes].time
    /\ keyframes[1].time < keyframes[MaxKeyframes].time
    /\ keyframes[1].interpolationType = "bezier"
    /\ ~SameCamera(ToJSON(keyframes[1]), keyframes[MaxKeyframes])

\* x <= y
NumLeq(x, y) == x = y \/ NumLess(x, y)

\* x lies between a and b, inclusive
Within(a, x, b) ==
    \/ NumLeq(a, x) /\ NumLeq(x, b)
    \/ NumLeq(b, x) /\ NumLeq(x, a)

\* C20 (as claimed): when the curve of the bracketing keyframes is linear,
\* easeIn, easeOut or easeInOut, each of latitude, longitude and zoom that
\* interpolateAt answers lies between the values of the two bracketing
\* keyframes, inclusive.
C20_NoOvershoot ==
    (/\ sampled.asked
     /\ sampled.around.before # 0
     /\ sampled.around.after # 0) =>
        LET before == keyframes[sampled.around.before]
            after == keyframes[sampled.around.after]
        IN  before.interpolationType
                \in { "linear", "easeIn", "easeOut", "easeInOut" } =>
                /\ Within(before.latitude, sampled.camera.latitude,
                          after.latitude)
                /\ Within(before.longitude, sampled.camera.longitude,
                          after.longitude)
                /\ Within(before.zoom, sampled.camera.zoom, after.zoom)

\* the sample asked for lies between two different keyframes
Bracketed ==
    /\ sampled.asked
    /\ sampled.around.before # 0
    /\ sampled.around.after # 0
    /\ sampled.around.before # sampled.around.after

\* a + (b - a) * (q - before.time) / (after.time - before.time)
LinearValue(a, b, before, after, q) ==
    NumAdd(a, NumMul(NumSub(b, a),
                     NumDiv(ToNumber(q - before.time),
                            ToNumber(after.time - before.time))))

\* the keyframes (0, {0, 0, 1}) and (10, {10, 20, 5}), linear
ExampleKeyframes ==
    << Keyframe(0, [ latitude |-> ToNumber(0), longitude |-> ToNumber(0),
                     zoom |-> ToNumber(1) ], "linear"),
       Keyframe(10, [ latitude |-> ToNumber(10), longitude |-> ToNumber(20),
                      zoom |-> ToNumber(5) ], "linear") >>

\* C21: between two keyframes of distinct times whose outgoing curve is
\* linear, interpolateAt(q) answers for each component
\* a + (b - a) * (q - before.time) / (after.time - before.time); the keyframes
\* (0, {0, 0, 1}) and (10, {10, 20, 5}) give {5, 10, 3} at q = 5.
C21_LinearSegment ==
    /\ Bracketed =>
           LET before == keyframes[sampled.around.before]
               after == keyframes[sampled.around.after]
               q == sampled.time
           IN  (before.time # after.time
                    /\ before.interpolationType = "linear") =>
                   /\ sampled.camera.latitude =
                          LinearValue(before.latitude, after.latitude,
                                      before, after, q)
                   /\ sampled.camera.longitude =
                          LinearValue(before.longitude, after.longitude,
                                      before, after, q)
                   /\ sampled.camera.zoom =
                          LinearValue(before.zoom, after.zoom, before, after, q)
    /\ InterpolateAt(ExampleKeyframes, 5) =
           [ latitude |-> ToNumber(5), longitude |-> ToNumber(10),
             zoom |-> ToNumber(3) ]

\* a time strictly between two keyframes was asked for, the earlier one linear
\* and holding another camera than the later one
C21_Witness ==
    /\ Bracketed
    /\ keyframes[sampled.around.before].interpolationType = "linear"
    /\ keyframes[sampled.around.before].time < sampled.time
    /\ sampled.time < keyframes[sampled.around.after].time
    /\ ~SameCamera(ToJSON(keyframes[sampled.around.before]),
                   keyframes[sampled.around.after])

\* C22: with no keyframe stored, interpolateAt answers latitude 35.6762,
\* longitude 139.6503 and zoom 13 for every query time.
C22_EmptyStoreGivesDefault ==
    (sampled.asked /\ Len(keyframes) = 0) =>
        sampled.camera =
            [ latitude |-> Literal(356762, 10000),
              longitude |-> Literal(1396503, 10000),
              zoom |-> ToNumber(13) ]

\* the empty store was asked for the camera at a time after the start
C22_Witness ==
    /\ sampled.asked
    /\ Len(keyframes) = 0
    /\ sampled.time > 0

\* C30: whenever interpolateAt interpolates between two different keyframes,
\* the position t it passes to the curve lies in [0, 1]; for two keyframes of
\* the same time the position is 0.
C30_PositionInUnitInterval ==
    /\ Bracketed =>
           LET t == Position(keyframes[sampled.around.before],
                             keyframes[sampled.around.after], sampled.time)
           IN  NumLeq(Zero, t) /\ NumLeq(t, ToNumber(1))
    /\ sampled.asked =>
           \A i, j \in 1 .. Len(keyframes) :
               keyframes[i].time = keyframes[j].time =>
                   Position(keyframes[i], keyframes[j], sampled.time) = Zero

\* a time strictly between two keyframes was asked for, more than one second
\* after the earlier one
C30_Witness ==
    /\ Bracketed
    /\ sampled.time - keyframes[sampled.around.before].time > 1
    /\ sampled.time < keyframes[sampled.around.after].time

\* C23: every addKeyframe, updateKeyframe and removeKeyframe that succeeds
\* calls each callback subscribed to 'keyframesChanged' exactly once within
\* the operation, in the order of subscription, and each call sees the array
\* already sorted by time.
C23_ChangeNotifiesSubscribers ==
    [][ ( /\ emitted' # emitted
          /\ emitted'.op \in { "addKeyframe", "updateKeyframe",
                               "removeKeyframe" } ) =>
            /\ Len(emitted'.calls) = Len(listeners)
            /\ \A k \in 1 .. Len(listeners) :
                   /\ emitted'.calls[k].callback = listeners[k]
                   /\ emitted'.calls[k].keyframes = keyframes'
            /\ \A i, j \in 1 .. Len(keyframes') :
                   i < j => keyframes'[i].time <= keyframes'[j].time ]_vars

\* two callbacks are subscribed and an update of a keyframe's time has told
\* both of an array of two keyframes
C23_Witness ==
    /\ Len(listeners) >= 2
    /\ emitted.op = "updateKeyframe"
    /\ Len(emitted.calls) >= 2
    /\ Len(keyframes) >= 2
    /\ keyframes[1].time < keyframes[2].time

C27_FramesSortedAtEncoding ==
    \A r \in Requests :
        status[r].status = "encoding" =>
            \A k \in 1 .. Len(status[r].frames) - 1 :
                status[r].frames[k] < status[r].frames[k + 1]

\* the frames the encoder side has accepted: stored by a batch answered with
\* success (batch variant), or passed on to the muxer (worker variant)
Acknowledged ==
    IF variant = "batch"
    THEN UNION { Range(uploads[k].frames) :
                   k \in { u \in DOMAIN uploads : uploads[u].state = "ok" } }
    ELSE { muxed[k].frameIndex : k \in DOMAIN muxed }

\* C25: in the sequential export the finish / finalize request is sent only
\* when every frame 0 .. totalFrames-1 has been captured and its submission
\* has been acknowledged as successful by the encoder side.
C25_FinalizeAfterAllAcknowledged ==
    finalizeSent => \A f \in 0 .. seqTotal - 1 : f \in Acknowledged

\* C26: in the sequential export, when the loop finds the export cancelled,
\* the Cancelled result is shown only when no submission to the encoder side
\* is outstanding any more.
C26_CancelAwaitsOutstanding ==
    errorShown = "Export Cancelled" => Outstanding = 0

\* C28: within one session of the parallel export the queued jobs are the
\* frame indices 0 .. totalFrames-1, each job is taken from the queue and run
\* once, and different jobs write different frame files: a file a job of the
\* session has written is never replaced by another job of that session.
C28_OneTaskPerFrameKey ==
    /\ [](\A r \in Requests :
            /\ TaskIndices(r) # {} => TaskIndices(r) = 0 .. totalFrames[r] - 1
            /\ \A i, j \in TaskIndices(r) :
                   i # j => FrameFileName(i) # FrameFileName(j)
            /\ \A i \in TaskIndices(r) :
                   task[r][i] \in { "shot", "done" } =>
                       \A f \in frameDirs[sid[r]].files :
                           (f.name = FrameFileName(i) /\ f.img.req = r) =>
                               f.img.frameIndex = i)
    /\ [][ \A r \in Requests : \A i \in TaskIndices(r) :
             (task[r][i] # "queued" /\ i \in DOMAIN task'[r]) =>
                 /\ task'[r][i] # "queued"
                 /\ task[r][i] # "running" => task'[r][i] # "running" ]_vars

\* a session of three frames has had all of them captured, and the three
\* files are in its directory
C28_Witness ==
    \E r \in Requests :
        /\ totalFrames[r] = 3
        /\ \A i \in TaskIndices(r) :
               /\ task[r][i] \in { "shot", "done" }
               /\ HasFile(frameDirs[sid[r]], FrameFileName(i))
               /\ FileNamed(frameDirs[sid[r]], FrameFileName(i)).img
                      = [ req |-> r, frameIndex |-> i ]

\* C29: an export creates exactly totalFrames = ceil(duration * fps) capture
\* steps, one for each frameIndex 0 .. totalFrames-1, and the step of frame i
\* samples the camera at the time i / fps: every frame that has been captured
\* was preceded by interpolateAt(i / fps) in its step.
C29_StepSamplesAtFrameTime ==
    /\ \A r \in Requests :
           /\ TaskIndices(r) # {} => TaskIndices(r) = 0 .. totalFrames[r] - 1
           /\ \A i \in TaskIndices(r) :
                  task[r][i] \in { "shot", "done" } =>
                      [ req |-> r, frameIndex |-> i, time |-> << i, "fps" >> ]
                          \in cameraSamples
    /\ seqFrame <= seqTotal
    /\ \A f \in 0 .. seqFrame - 1 :
           [ req |-> 0, frameIndex |-> f, time |-> << f, "fps" >> ]
               \in cameraSamples

\* C31: when interpolateAt interpolates between two different keyframes, the
\* curve it applies is the one of the 'before' keyframe: whatever
\* interpolationType the 'after' keyframe is given instead of its own, the
\* camera returned for the same time is the same.
C31_CurveOfBeforeKeyframe ==
    Bracketed =>
        /\ sampled.camera.latitude =
               Interpolate(keyframes[sampled.around.before].latitude,
                           keyframes[sampled.around.after].latitude,
                           Position(keyframes[sampled.around.before],
                                    keyframes[sampled.around.after],
                                    sampled.time),
                           keyframes[sampled.around.before].interpolationType)
        /\ \A type \in Curves :
               InterpolateAt([ keyframes EXCEPT
                                 ![sampled.around.after].interpolationType = type ],
                             sampled.time) = sampled.camera

\* a time strictly inside a segment was asked for whose two keyframes differ
\* in camera and in curve
C31_Witness ==
    /\ Bracketed
    /\ keyframes[sampled.around.before].time < sampled.time
    /\ sampled.time < keyframes[sampled.around.after].time
    /\ keyframes[sampled.around.before].interpolationType
           # keyframes[sampled.around.after].interpolationType
    /\ keyframes[sampled.around.before].latitude
           # keyframes[sampled.around.after].latitude

\* the progress of a record, a quotient << n, d >>, compared and bounded
ProgressLeq(p, q) == p[1] * q[2] <= q[1] * p[2]
ProgressInRange(p) == 0 <= p[1] /\ p[1] <= 100 * p[2]

\* C32: the progress a status poll reads from the record of a parallel
\* session lies in [0, 100], and from one write of the record to the next it
\* never decreases, from the start of capture through encoding to completion.
C32_ProgressMonotone ==
    [][ \A r \in Requests :
          LET old == GetSession(sessionsFile, sid[r])
              new == GetSession(sessionsFile', sid[r])
          IN  (sid[r] # 0 /\ sid'[r] = sid[r] /\ old # NoRecord /\ new # NoRecord) =>
                  /\ ProgressInRange(new.progress)
                  /\ ProgressLeq(old.progress, new.progress) ]_vars

\* C33: any two export sessions started on the server have different session
\* ids, and with them different frame directories and session records.
C33_SessionIdsDistinct ==
    \A r, q \in Requests :
        (r # q /\ sid[r] # 0 /\ sid[q] # 0) => sid[r] # sid[q]

\* the export runs of the one VideoExporter that have begun and not ended
SequentialRunning == seqPc \notin { "idle", "done", "error", "closed" }
ParallelRunning ==
    clientPc \notin { "idle", "downloaded", "cancelled", "failed" }

\* C34: at most one export run of a VideoExporter is active at a time, and a
\* cancel confirmed while the capture loop of a run is going is not lost: that
\* run sends no finalize and downloads nothing, whatever is started afterwards.
C34_OneRunAndCancelSticks ==
    /\ ~(SequentialRunning /\ ParallelRunning)
    /\ cancelledIn = "loop" => ~finalizeSent /\ downloaded = NoFile

\* C35: however a run of the worker-based startExport ends (download,
\* cancellation, or an error after the flag was set), afterwards isExporting
\* is false, the start button is enabled, the encoder worker is terminated
\* and the map container no longer has the style forced for the capture.
C35_RunEndsCleanedUp ==
    (variant = "worker" /\ seqPc \in { "done", "error" }) =>
        /\ ~isExporting
        /\ ~ui.startDisabled
        /\ ui.worker = "terminated"
        /\ ui.style # "forced"

\* a run was cancelled in its capture loop, after the container's style had
\* been forced, and has ended
C35_Witness ==
    /\ variant = "worker"
    /\ seqPc = "error"
    /\ errorShown = "Export Cancelled"
    /\ ~ui.startDisabled
    /\ ui.worker = "terminated"
    /\ ui.style = "restored"

\* the 'encode' messages waiting in the worker's queue
IsEncode(m) == m.type = "encode"
PendingEncodes == SelectSeq(wInbox, IsEncode)

\* quotients << n, d >> compared
QuotientLess(p, q) == p[1] * q[2] < q[1] * p[2]

\* C36: in the worker-based export the frames are posted to the encoder in
\* strictly ascending frameIndex order, each index of 0 .. totalFrames-1 at
\* most once, with strictly increasing timestamps, frame 0 as a key frame,
\* and no 'encode' message is posted once 'finalize' has been.
C36_EncodeMessagesInOrder ==
    /\ [](variant = "worker" =>
            /\ \A k \in DOMAIN PendingEncodes :
                   /\ PendingEncodes[k].frame \in 0 .. seqTotal - 1
                   /\ PendingEncodes[k].frame < seqFrame
                   /\ PendingEncodes[k].frame = 0 => PendingEncodes[k].keyFrame
                   /\ \A m \in DOMAIN muxed :
                          muxed[m].frameIndex < PendingEncodes[k].frame
            /\ \A j, k \in DOMAIN PendingEncodes :
                   j < k =>
                       /\ PendingEncodes[j].frame < PendingEncodes[k].frame
                       /\ QuotientLess(PendingEncodes[j].timestamp,
                                       PendingEncodes[k].timestamp)
            /\ \A j, k \in DOMAIN wInbox :
                   (j < k /\ wInbox[j].type = "finalize") =>
                       wInbox[k].type # "encode")
    /\ [][ ( /\ Len(wInbox') = Len(wInbox) + 1
             /\ wInbox'[Len(wInbox')].type = "encode" ) =>
               /\ ~finalizeSent /\ ~finalizeSent'
               /\ wInbox'[Len(wInbox')].frame = seqFrame
               /\ wInbox'[Len(wInbox')].timestamp
                      = << seqFrame * 1000000, ui.fps >>
               /\ seqFrame' = seqFrame + 1 ]_vars

\* three frames are waiting in the worker's queue, posted after one another
C36_Witness ==
    /\ variant = "worker"
    /\ Len(PendingEncodes) >= 3
    /\ PendingEncodes[1].frame = 0
    /\ PendingEncodes[3].frame = 2

\* C37: after any addKeyframe, removeKeyframe, updateKeyframe, clear,
\* importFromJSON and selectKeyframe on stored keyframes, selectedKeyframe is
\* null or a keyframe of the store; a removal that takes the selected keyframe
\* out resets the selection to null and emits 'keyframeSelected' with null,
\* and any other removal leaves the selection on the keyframe it was on.
C37_SelectionInStore ==
    /\ [](selectedKeyframe \in 0 .. Len(keyframes))
    /\ [][ ( /\ emitted'.op = "removeKeyframe"
             /\ Len(keyframes') = Len(keyframes) - 1
             /\ selectedKeyframe # 0 ) =>
               \/ selectedKeyframe' = 0 /\ emitted'.selected = << 0 >>
               \/ /\ selectedKeyframe' \in 1 .. Len(keyframes')
                  /\ keyframes'[selectedKeyframe'] = keyframes[selectedKeyframe]
                  /\ emitted'.selected = << >> ]_vars

\* the second of two keyframes was selected and then removed: the selection
\* is null again and 'keyframeSelected' was emitted with null
C37_Witness ==
    /\ emitted.op = "removeKeyframe"
    /\ emitted.selected = << 0 >>
    /\ selectedKeyframe = 0
    /\ Len(keyframes) = MaxKeyframes - 1

\* C38: after any play, pause, stop and ticks of the play interval, at most
\* one interval is running, one is running exactly when isPlaying is true,
\* and a tick of playback that does not loop and has reached the duration
\* stops the playback with the playhead exactly at the duration.
C38_OneTimerWhilePlaying ==
    /\ [](/\ Cardinality(playTimers.active) <= 1
          /\ isPlaying <=> playTimers.active # {})
    /\ [][ ( /\ playTimers'.tick
             /\ ~loop
             /\ now' - playStartTime >= duration ) =>
               /\ currentTime' = duration
               /\ ~isPlaying'
               /\ playTimers'.active = {} ]_vars

\* playback that does not loop was started before the end and the last tick
\* found the duration reached
C38_Witness ==
    /\ variant = "playback"
    /\ playTimers.tick
    /\ ~loop
    /\ ~isPlaying
    /\ currentTime = duration
    /\ playStartTime > 0

\* the head of the worker's queue is handled in this step
Handles(type) ==
    /\ variant = "encoder"
    /\ wInbox # << >>
    /\ Head(wInbox).type = type
    /\ wInbox' = Tail(wInbox)

\* C39: the encoder worker answers a 'finalize' that arrives before any
\* 'configure' with 'error' and never with 'complete', answers an 'encode'
\* that arrives before 'configure' with 'error', and can still process a
\* later 'configure'.
C39_UnconfiguredWorkerAnswersError ==
    /\ [][ ( encState = "none" /\ (Handles("finalize") \/ Handles("encode")) ) =>
               /\ wOutbox' = Append(wOutbox, Msg("error", Head(wInbox).frame))
               /\ encState' = "none"
               /\ muxed' = muxed ]_vars
    /\ []( ( /\ variant = "encoder"
             /\ wInbox # << >>
             /\ Head(wInbox).type = "configure" ) => ENABLED WorkerConfigure )

\* an 'encode' and a 'finalize' before 'configure' were answered with
\* 'error', and the 'configure' after them with 'configured'
C39_Witness ==
    /\ variant = "encoder"
    /\ Len(wOutbox) = 3
    /\ wOutbox[1].type = "error"
    /\ wOutbox[2].type = "error"
    /\ wOutbox[3].type = "configured"
    /\ muxed = << >>
    /\ encState = "configured"

====
